---- MODULE Spec2Model ----
(***************************************************************************)
(* imapbackup.py: incremental IMAP <-> mbox mirroring.                     *)
(*                                                                         *)
(* Part 1: retry_on_network_error, the retry wrapper (a loop over          *)
(* attempts with exponential backoff).                                     *)
(***************************************************************************)
EXTENDS Integers, Sequences, FiniteSets, TLC

(* ---------------------------------------------------------------------- *)
(* Program constants                                                       *)
(* ---------------------------------------------------------------------- *)
DEFAULT_MAX_RETRIES == 3
DEFAULT_RETRY_DELAY == 1
DEFAULT_RETRY_BACKOFF == 2
FETCH_BATCH_SIZE == 1000

(* ---------------------------------------------------------------------- *)
(* Bounds of the model                                                     *)
(* ---------------------------------------------------------------------- *)
MaxRetriesBound == 4      \* max_retries is drawn from 1..MaxRetriesBound
MaxInvocations  == 2      \* wrapper invocations observed one after another

DelayChoices   == {1, 3}      \* initial delays tried (seconds)
BackoffChoices == {1, 2, 3}   \* backoff multipliers tried

(* ---------------------------------------------------------------------- *)
(* The retry wrapper                                                       *)
(* ---------------------------------------------------------------------- *)
VARIABLES
    r_pc,            \* "idle" | "loop" | "returned" | "raised"
    max_retries,     \* argument max_retries
    delay,           \* argument delay
    backoff,         \* argument backoff
    attempt,         \* loop variable of `for attempt in range(max_retries)`
    current_delay,   \* local current_delay
    last_exception,  \* local last_exception (NoExc = None)
    r_result,        \* the value returned, or the exception raised, to the caller
    trace,           \* outcomes of the calls of func made by this invocation
    notices,         \* number of "Retrying in ..." lines printed by this invocation
    sleeps,          \* arguments of the time.sleep calls of this invocation
    failmsgs,        \* number of "All %d attempts failed" lines printed
    invocations      \* number of invocations of the wrapper so far

rvars == <<r_pc, max_retries, delay, backoff, attempt, current_delay,
           last_exception, r_result, trace, notices, sleeps, failmsgs,
           invocations>>


\* the exception classes the except clause of line 188 names
TransientKinds == {"socket.error", "socket.timeout", "IMAP4.error"}
\* any other exception class (line 203)
OtherKinds == {"ValueError"}

NoExc == [k |-> "None", at |-> 0, v |-> ""]

\* an exception object: its class and the call of func that raised it
Exc(kind, n) == [k |-> kind, at |-> n, v |-> ""]

\* a value returned by func, and the call that returned it
Ret(val, n) == [k |-> "ret", at |-> n, v |-> val]

ReturnValues == {"OK", "NO"}

\* an except clause that catches every exception class
IsTransient_CatchAll(kind) == TRUE

\* line 188: except (socket.error, socket.timeout, imaplib.IMAP4.error)
IsTransient(kind) == kind \in TransientKinds

\* a wrapper that also sleeps after the last attempt
SleepsAfter_EveryAttempt(a, m) == a < m

\* line 190: if attempt < max_retries - 1   (don't sleep on last attempt)
SleepsAfter(a, m) == a < m - 1

\* a wrapper whose delay grows by addition
NextDelay_Adds(d, b) == d + b

\* line 197: current_delay *= backoff
NextDelay(d, b) == d * b

\* lines 182-183: entry of the wrapper
RetryEnter(m, d, b) ==
    /\ r_pc' = "loop"
    /\ max_retries' = m
    /\ delay' = d
    /\ backoff' = b
    /\ attempt' = 0
    /\ current_delay' = d
    /\ last_exception' = NoExc
    /\ r_result' = NoExc
    /\ trace' = <<>>
    /\ notices' = 0
    /\ sleeps' = <<>>
    /\ failmsgs' = 0
    /\ invocations' = invocations + 1

\* the position reached after the body of the loop ran for `attempt`
\* without returning: next iteration, or line 208 (raise last_exception)
AfterFailedAttempt(a, m, e) ==
    IF a + 1 < m THEN [pc |-> "loop", res |-> NoExc]
                 ELSE [pc |-> "raised", res |-> e]

\* lines 185-208 as a function of func's behaviour: func[i] is the outcome
\* of the i-th call of func; the result is what the caller gets
RECURSIVE RetryRun(_, _, _, _)
RetryRun(func, a, m, last) ==
    IF a >= m THEN [pc |-> "raised", res |-> last]
    ELSE LET o == func[a + 1]
         IN IF o.k = "ret" THEN [pc |-> "returned", res |-> o]
            ELSE IF IsTransient(o.k)
                 THEN RetryRun(func, a + 1, m, o)
                 ELSE [pc |-> "raised", res |-> o]

\* the results retry_on_network_error can hand to a caller that uses the
\* default arguments, for a func that answers from `answers`
RetryResults(answers) ==
    LET outcomes(i) == {Ret(v, i) : v \in answers}
                       \cup {Exc(kind, i) : kind \in {"socket.error", "ValueError"}}
        funcs == {f \in [1..DEFAULT_MAX_RETRIES -> UNION {outcomes(i) : i \in 1..DEFAULT_MAX_RETRIES}] :
                     \A i \in 1..DEFAULT_MAX_RETRIES : f[i].at = i}
    IN {RetryRun(f, 0, DEFAULT_MAX_RETRIES, NoExc) : f \in funcs}

\* a wrapper that drops the `return` of line 187 and goes round the loop
RetryFuncReturns_NoReturn(v) ==
    /\ r_pc = "loop"
    /\ trace' = Append(trace, Ret(v, Len(trace) + 1))
    /\ attempt' = attempt + 1
    /\ r_pc' = IF attempt + 1 < max_retries THEN "loop" ELSE "returned"
    /\ r_result' = Ret(v, Len(trace) + 1)
    /\ UNCHANGED <<max_retries, delay, backoff, current_delay,
                   last_exception, notices, sleeps, failmsgs, invocations>>

\* lines 186-187: func() returns v, the wrapper returns it
RetryFuncReturns(v) ==
    /\ r_pc = "loop"
    /\ trace' = Append(trace, Ret(v, Len(trace) + 1))
    /\ r_pc' = "returned"
    /\ r_result' = Ret(v, Len(trace) + 1)
    /\ UNCHANGED <<max_retries, delay, backoff, attempt, current_delay,
                   last_exception, notices, sleeps, failmsgs, invocations>>

\* lines 188-205: func() raises an exception of class kind
RetryFuncRaises(kind) ==
    /\ r_pc = "loop"
    /\ LET e == Exc(kind, Len(trace) + 1) IN
       /\ trace' = Append(trace, e)
       /\ IF IsTransient(kind)
          THEN /\ last_exception' = e
               /\ IF SleepsAfter(attempt, max_retries)
                  THEN /\ notices' = notices + 1
                       /\ sleeps' = Append(sleeps, current_delay)
                       /\ current_delay' = NextDelay(current_delay, backoff)
                       /\ failmsgs' = failmsgs
                  ELSE /\ failmsgs' = failmsgs + 1
                       /\ UNCHANGED <<notices, sleeps, current_delay>>
               /\ attempt' = attempt + 1
               /\ r_pc' = AfterFailedAttempt(attempt, max_retries, e).pc
               /\ r_result' = AfterFailedAttempt(attempt, max_retries, e).res
          ELSE /\ r_pc' = "raised"
               /\ r_result' = e
               /\ UNCHANGED <<last_exception, notices, sleeps, current_delay,
                              failmsgs, attempt>>
    /\ UNCHANGED <<max_retries, delay, backoff, invocations>>

(* ---------------------------------------------------------------------- *)
(* Part 2: messages, identities and the mbox archive                       *)
(*                                                                         *)
(* A text is a sequence of lines.  A line is [t, k, v]:                    *)
(*   t = "sep"   the separator "From nobody <ctime>" written by the codec  *)
(*   t = "mid"   a Message-Id header line; v = the words of its value;     *)
(*               k = 0 for "Message-Id: v", k = 1 for "Message-Id:v"       *)
(*   t = "hdr"   one of the headers From/To/Cc/Date/Subject; v = <<c>>,    *)
(*               c its content                                             *)
(*   t = "blank" an empty line                                             *)
(*   t = "from"  k quote markers '>' followed by "From " and more text     *)
(*   t = "sfrom" a space followed by "From " and more text                 *)
(*   t = "text"  any other line                                            *)
(* A header value is the sequence of its whitespace-separated words, so    *)
(* that collapsing whitespace runs (BLANKS_RE) is joining by one space.    *)
(* ---------------------------------------------------------------------- *)
Line(t, k, v) == [t |-> t, k |-> k, v |-> v]

SepLine   == Line("sep", 0, <<>>)
BlankLine == Line("blank", 0, <<>>)
TextLine  == Line("text", 0, <<>>)
FromLine(k) == Line("from", k, <<>>)
SpaceFromLine == Line("sfrom", 0, <<>>)
MidLine(k, v) == Line("mid", k, v)
HdrLine(c) == Line("hdr", 0, <<c>>)

\* the word "Message-Id:" as it stands in a header block
W_MID == "Message-Id:"
\* str(None), what "{1}".format(message.get(...)) gives for a missing header
W_NONE == "None"

Contents == {"s1", "s2"}

\* line 1045-1046: '<' + UUID + '.' + sha1(header).hexdigest() + '>'
\* (the hash is modelled as injective on the header contents of the model)
SynWord(c) ==
    CASE c = "s1" -> "<UUID.h1>"
      [] c = "s2" -> "<UUID.h2>"
      [] OTHER    -> "<UUID.h0>"

UUIDWords == {"<UUID.h1>", "<UUID.h2>", "<UUID.h0>"}

\* "Message-Id:" immediately followed by the word w, no space between
Glue(w) ==
    CASE w = "<a@x>" -> "Message-Id:<a@x>"
      [] w = "<b@x>" -> "Message-Id:<b@x>"
      [] OTHER       -> "Message-Id:<...>"

\* line 753: UUID in msg_id
HasUUID(id) == \E i \in DOMAIN id : id[i] \in UUIDWords

IsHeaderLine(l) == l.t \in {"mid", "hdr"}

\* number of lines of the header section of a text: the header lines that
\* precede the first line that is not a header
RECURSIVE HeaderLen(_)
HeaderLen(text) ==
    IF text = <<>> \/ ~IsHeaderLine(Head(text)) THEN 0
    ELSE 1 + HeaderLen(Tail(text))

HeaderLines(text) == SubSeq(text, 1, HeaderLen(text))

\* the words of one Message-Id header line as the server sends it
MidLineWords(l) ==
    IF l.k = 0 THEN <<W_MID>> \o l.v
    ELSE IF l.v = <<>> THEN <<W_MID>>
    ELSE <<Glue(Head(l.v))>> \o Tail(l.v)

RECURSIVE ConcatWords(_)
ConcatWords(ls) ==
    IF ls = <<>> THEN <<>>
    ELSE MidLineWords(Head(ls)) \o ConcatWords(Tail(ls))

\* BODY.PEEK[HEADER.FIELDS (MESSAGE-ID)] of a message, after strip() and
\* BLANKS_RE.sub(' ', ...): the words of its Message-Id header lines
MsgIdBlock(msg) ==
    ConcatWords(SelectSeq(HeaderLines(msg), LAMBDA l : l.t = "mid"))

\* MSGID_RE.match(header).group(1): r"^Message-Id: (.+)" on a collapsed,
\* stripped block; <<>> stands for "no match"
MatchMsgId(words) ==
    IF Len(words) >= 2 /\ Head(words) = W_MID THEN Tail(words) ELSE <<>>

\* BODY[HEADER.FIELDS (FROM TO CC DATE SUBJECT)] of a message: the content
\* of those headers ("" when it has none)
AltContent(msg) ==
    LET hs == SelectSeq(HeaderLines(msg), LAMBDA l : l.t = "hdr")
    IN IF hs = <<>> THEN "" ELSE Head(hs).v[1]

\* lines 1042-1046: the synthesised identity of a message
SynthId(msg) == <<SynWord(AltContent(msg))>>

(* ---- the codec of download_messages ---------------------------------- *)

RECURSIVE StripLeft(_)
StripLeft(text) ==
    IF text # <<>> /\ Head(text).t = "blank" THEN StripLeft(Tail(text))
    ELSE text

RECURSIVE StripRight(_)
StripRight(text) ==
    IF text # <<>> /\ text[Len(text)].t = "blank"
    THEN StripRight(SubSeq(text, 1, Len(text) - 1))
    ELSE text

\* line 787: data_bytes.strip(); an empty text is one empty line
Strip(text) ==
    LET s == StripRight(StripLeft(text))
    IN IF s = <<>> THEN <<BlankLine>> ELSE s

\* line 796: from_re.sub(b"\n>\\1From ", ...) on one line that follows a "\n"
QuoteFrom(l) == IF l.t = "from" THEN FromLine(l.k + 1) ELSE l

\* line 791: replace(b"\nFrom ", b"\n From ") on one line that follows a "\n"
SpaceFrom(l) == IF l.t = "from" /\ l.k = 0 THEN SpaceFromLine ELSE l

\* lines 787-796: the text written for a message; the first line has no
\* "\n" before it and is never rewritten
EncodeText(msg, tb) ==
    LET s == Strip(msg)
    IN [i \in 1..Len(s) |->
          IF i = 1 THEN s[i]
          ELSE IF tb THEN SpaceFrom(s[i]) ELSE QuoteFrom(s[i])]

\* a codec that never injects the identity
RecordHead_NeverInjects(msg_id) == <<SepLine>>

\* lines 750-757: the separator line and, for a synthesised Message-Id,
\* the injected header
RecordHead(msg_id) ==
    IF HasUUID(msg_id) THEN <<SepLine, MidLine(0, msg_id)>> ELSE <<SepLine>>

\* line 800: mbox.write(b'\n\n') ends the last line and adds an empty one
RecordEnd == <<BlankLine>>

(* ---- reading an archive: mailbox.mbox and the email parser ----------- *)

\* mailbox.mbox._generate_toc: a line that starts with "From " starts a record
StartsRecord(l) == l.t = "sep" \/ (l.t = "from" /\ l.k = 0)

\* the records of an archive, each without its "From " line; lines before
\* the first "From " line belong to no record
RECURSIVE SplitRecords(_, _, _)
SplitRecords(lines, cur, open) ==
    IF lines = <<>> THEN (IF open THEN <<cur>> ELSE <<>>)
    ELSE IF StartsRecord(Head(lines))
         THEN (IF open THEN <<cur>> ELSE <<>>) \o SplitRecords(Tail(lines), <<>>, TRUE)
         ELSE SplitRecords(Tail(lines), IF open THEN Append(cur, Head(lines)) ELSE cur, open)

Records(lines) == SplitRecords(lines, <<>>, FALSE)

\* message.get('Message-Id'): the value of the first Message-Id header of
\* the record, <<W_NONE>> when there is none (None formats as "None")
EmailGet(rec, default) ==
    LET ms == SelectSeq(HeaderLines(rec), LAMBDA l : l.t = "mid")
    IN IF ms = <<>> THEN default ELSE Head(ms).v

\* lines 879-894 of scan_file: the identity of one record, <<>> when the
\* header is malformed
RecordId(rec) == MatchMsgId(<<W_MID>> \o EmailGet(rec, <<W_NONE>>))

\* dictionaries are sequences of [id, num] entries in insertion order
Keys(d) == {d[i].id : i \in DOMAIN d}
Entry(id, num) == [id |-> id, num |-> num]
Lookup(d, id) == (CHOOSE i \in DOMAIN d : d[i].id = id)
Get(d, id) == d[Lookup(d, id)].num

\* lines 895-897, 1021-1023: if msg_id not in messages.keys(): messages[msg_id] = num
PutNew(d, id, num) == IF id \in Keys(d) THEN d ELSE Append(d, Entry(id, num))

\* lines 1045-1046: messages[key] = num
Put(d, id, num) ==
    IF id \in Keys(d) THEN [d EXCEPT ![Lookup(d, id)].num = num]
    ELSE Append(d, Entry(id, num))

\* lines 874-907 of scan_file over the records of an archive
RECURSIVE ScanRecords(_, _)
ScanRecords(recs, messages) ==
    IF recs = <<>> THEN messages
    ELSE LET msg_id == RecordId(Head(recs))
         IN ScanRecords(Tail(recs),
                        IF msg_id = <<>> THEN messages
                        ELSE PutNew(messages, msg_id, 0))

\* a scan that gives up what it has read when the mailbox fails (as the
\* handler of lines 930-933 does)
ReadFailed_ReturnsEmpty(messages) == <<>>

\* lines 909-918: the iteration over the mailbox raises; return messages
ReadFailed(messages) == messages

\* lines 856-928 of scan_file on a file that exists and holds `lines`;
\* cut = the number of records read before the mailbox becomes unreadable
\* (all of them when it stays readable, none when it cannot be opened)
ScanMbox(lines, cut) ==
    LET recs == Records(lines)
    IN IF cut < Len(recs)
       THEN ReadFailed(ScanRecords(SubSeq(recs, 1, cut), <<>>))
       ELSE ScanRecords(recs, <<>>)

\* lines 1008-1053 of scan_folder over the messages num..n of a folder;
\* nofetch = the sequence numbers whose fallback header fetch fails
RECURSIVE ScanMessages(_, _, _, _)
ScanMessages(msgs, num, nofetch, messages) ==
    IF num > Len(msgs) THEN messages
    ELSE LET msg_id == MatchMsgId(MsgIdBlock(msgs[num]))
         IN ScanMessages(msgs, num + 1, nofetch,
               IF msg_id # <<>> THEN PutNew(messages, msg_id, num)
               ELSE IF num \in nofetch THEN messages
               ELSE Put(messages, SynthId(msgs[num]), num))

\* the sequence numbers for which scan_folder needs the fallback fetch
NeedsFallback(msgs) ==
    {num \in DOMAIN msgs : MatchMsgId(MsgIdBlock(msgs[num])) = <<>>}

Min(a, b) == IF a < b THEN a ELSE b

\* batches whose end is one too far: batch_end = batch_start + K
RECURSIVE BatchRanges_EndTooFar(_, _, _)
BatchRanges_EndTooFar(batch_start, num_msgs, K) ==
    IF batch_start > num_msgs THEN <<>>
    ELSE <<[lo |-> batch_start, hi |-> Min(batch_start + K, num_msgs)]>>
         \o BatchRanges_EndTooFar(batch_start + K, num_msgs, K)

\* lines 979-981: for batch_start in range(1, num_msgs + 1, K), with
\* batch_end = min(batch_start + K - 1, num_msgs); K >= 1
RECURSIVE BatchRanges(_, _, _)
BatchRanges(batch_start, num_msgs, K) ==
    IF batch_start > num_msgs THEN <<>>
    ELSE <<[lo |-> batch_start, hi |-> Min(batch_start + K - 1, num_msgs)]>>
         \o BatchRanges(batch_start + K, num_msgs, K)

\* what a call of scan_folder gives its caller and asks of the server:
\* exc = the exception raised ("None" when it returns), messages = the map
\* returned, fetches = the batch_range of every identity-header fetch with
\* the number of times the wrapper sent it, alt = the sequence numbers of
\* the fallback fetches
NoMap == "no map"
ScanFolderReturn(messages, fetches, alt) ==
    [exc |-> "None", messages |-> messages, fetches |-> fetches, alt |-> alt]

\* a scan that hands its caller the map collected before the failure
ScanFolderRaise_ReturnsPartial(messages, fetches, alt) ==
    [exc |-> "None", messages |-> messages, fetches |-> fetches, alt |-> alt]

\* lines 960-970, 997-1004, 1059-1061: raise SkipFolderException; the local
\* `messages` is lost
ScanFolderRaise(messages, fetches, alt) ==
    [exc |-> "SkipFolderException", messages |-> NoMap, fetches |-> fetches, alt |-> alt]

\* line 964, 1002, 1037: 'OK' != typ, for what the wrapper handed back
NotOK(r) == r.pc = "raised" \/ r.res.v # "OK"

\* lines 979-1057: the loop over the batches from batch b on; fetch[b] is
\* what the wrapper hands back for the fetch of batch b
RECURSIVE ScanBatches(_, _, _, _, _, _, _, _)
ScanBatches(msgs, ranges, b, fetch, nofetch, messages, fetches, alt) ==
    IF b > Len(ranges) THEN ScanFolderReturn(messages, fetches, alt)
    ELSE LET lo == ranges[b].lo
             hi == ranges[b].hi
             sent == Append(fetches, [lo |-> lo, hi |-> hi, calls |-> fetch[b].res.at])
         IN IF NotOK(fetch[b]) THEN ScanFolderRaise(messages, sent, alt)
            ELSE ScanBatches(msgs, ranges, b + 1, fetch, nofetch,
                    ScanMessages(SubSeq(msgs, 1, hi), lo, nofetch, messages),
                    sent,
                    alt \cup {num \in NeedsFallback(msgs) : lo <= num /\ num <= hi})

\* scan_folder (lines 936-1074) on a folder that holds msgs, with batch size
\* K: select = what the wrapper hands back for SELECT, count_ok = whether
\* data[0] parses as an integer
ScanFolder(msgs, K, select, count_ok, fetch, nofetch) ==
    IF NotOK(select) \/ ~count_ok THEN ScanFolderRaise(<<>>, <<>>, {})
    ELSE ScanBatches(msgs, BatchRanges(1, Len(msgs), K), 1, fetch, nofetch,
                     <<>>, <<>>, {})

\* the response buffer `data` of scan_folder: what happens to it, in order
BufferEvent(ev, range) == [ev |-> ev, lo |-> range.lo, hi |-> range.hi]

\* a loop that leaves the buffer of the batch bound
ReleaseData_Keeps(range) == <<>>

\* lines 1055-1057: del data; gc.collect()
ReleaseData(range) == <<BufferEvent("del", range)>>

\* lines 979-1057: the fetch of batch b is sent ("fetch"); when the wrapper
\* hands back a response it is bound to `data` ("bind"); a response that
\* is not OK ends the scan, an OK one is read and released
RECURSIVE BatchEvents(_, _, _)
BatchEvents(ranges, b, fetch) ==
    IF b > Len(ranges) THEN <<>>
    ELSE <<BufferEvent("fetch", ranges[b])>>
         \o (IF fetch[b].pc = "raised" THEN <<>>
             ELSE <<BufferEvent("bind", ranges[b])>>
                  \o (IF NotOK(fetch[b]) THEN <<>>
                      ELSE ReleaseData(ranges[b])
                           \o BatchEvents(ranges, b + 1, fetch)))

\* the events of `data` during scan_folder (lines 936-1074)
ScanEvents(msgs, K, select, count_ok, fetch) ==
    IF NotOK(select) \/ ~count_ok THEN <<>>
    ELSE BatchEvents(BatchRanges(1, Len(msgs), K), 1, fetch)

\* the batches whose response `data` keeps alive after the events: a
\* response stays alive until it is deleted or `data` is bound again
RECURSIVE DataHeld(_)
DataHeld(events) ==
    IF events = <<>> THEN {}
    ELSE LET last == events[Len(events)]
             before == DataHeld(SubSeq(events, 1, Len(events) - 1))
         IN CASE last.ev = "bind" -> {[lo |-> last.lo, hi |-> last.hi]}
              [] last.ev = "del" -> {}
              [] OTHER -> before

\* the ways a request reaches the server
WRAPPED == "retry_on_network_error"    \* func of a call of the wrapper
DIRECT  == "server"                    \* a call of the method of the session

\* line 953: server.select(foldername_quoted, readonly=True), through the
\* wrapper (lines 955-958)
SelectRequest ==
    [cmd |-> "SELECT", readonly |-> TRUE, lo |-> 0, hi |-> 0, parts |-> <<>>,
     via |-> WRAPPED]

\* the message_parts of the fetches of scan_folder, word by word
IdParts  == <<"(", "BODY.PEEK", "[", "HEADER.FIELDS", "(", "MESSAGE-ID", ")", "]", ")">>
AltParts == <<"(", "BODY", "[", "HEADER.FIELDS", "(", "FROM", "TO", "CC", "DATE",
              "SUBJECT", ")", "]", ")">>

\* lines 988-994: server.fetch(batch_range, '(BODY.PEEK[HEADER.FIELDS
\* (MESSAGE-ID)])'), through the wrapper
IdFetchRequest(lo, hi) ==
    [cmd |-> "FETCH", readonly |-> FALSE, lo |-> lo, hi |-> hi, parts |-> IdParts,
     via |-> WRAPPED]

\* lines 1028-1029: server.fetch(str(num), '(BODY[HEADER.FIELDS (FROM TO CC
\* DATE SUBJECT)])'), called on the session
AltFetchRequest(num) ==
    [cmd |-> "FETCH", readonly |-> FALSE, lo |-> num, hi |-> num, parts |-> AltParts,
     via |-> DIRECT]

\* the requests a call of scan_folder made, given what it reports in r
\* (lines 950-1029)
ScanRequests(r) ==
    {SelectRequest}
    \cup {IdFetchRequest(r.fetches[i].lo, r.fetches[i].hi) : i \in DOMAIN r.fetches}
    \cup {AltFetchRequest(num) : num \in r.alt}

\* a plan that keeps every entry of `src`
Diff_KeepsAll(src, other) == src

\* process_account lines 2005-2008 (backup) and 1993-1996 (restore):
\* the entries of `src` whose key is not a key of `other`
Diff(src, other) == SelectSeq(src, LAMBDA e : e.id \notin Keys(other))

\* a restore that uploads every record of the file
Plan_RestoreUploadsAll(rs, fol, fil) == IF rs THEN fil ELSE Diff(fol, fil)

\* process_account lines 1987-2008: upload what the file has and the folder
\* lacks (restore), download what the folder has and the file lacks (backup)
Plan(rs, fol, fil) == IF rs THEN Diff(fil, fol) ELSE Diff(fol, fil)

\* mailbox.mbox hands out a record without the empty line that ends it
DropLastBlank(rec) ==
    IF rec # <<>> /\ rec[Len(rec)].t = "blank"
    THEN SubSeq(rec, 1, Len(rec) - 1) ELSE rec

(* ---------------------------------------------------------------------- *)
(* Part 3: process_account, download_messages, upload_messages            *)
(* ---------------------------------------------------------------------- *)
\* the folder listing of the account: (foldername, filename) pairs
names == <<"INBOX", "Sent">>
Folders == DOMAIN names

MaxMsgs == 2       \* messages on the server at the start, all folders together
MaxSent == 1       \* messages in the second folder at the start
MaxTransfers == 3  \* messages handed to the transfer loops in one execution
MaxFaults == 1     \* failures (of I/O or of the server) injected in one execution

\* the messages a folder may hold at the start: a header section, an empty
\* line, a body
MsgPool == {
    \* a Message-Id, a body line that starts with "From "
    <<MidLine(0, <<"<a@x>">>), HdrLine("s1"), BlankLine, FromLine(0), TextLine>>,
    \* no Message-Id at all, a body line that starts with ">From "
    <<HdrLine("s1"), BlankLine, TextLine, FromLine(1)>>,
    \* "Message-Id:<b@x>", which MSGID_RE does not match
    <<MidLine(1, <<"<b@x>">>), HdrLine("s2"), BlankLine, TextLine>>,
    \* two Message-Id headers, the first one that of the first message;
    \* empty lines at the end
    <<MidLine(0, <<"<a@x>">>), MidLine(0, <<"<c@x>">>), HdrLine("s2"), BlankLine,
      TextLine, BlankLine>> }

\* the second folder holds messages sent from a client that adds no
\* Message-Id (line 1025: "this usually happens with Sent, Drafts")
SentPool == {<<HdrLine("s1"), BlankLine, TextLine, FromLine(1)>>}

RECURSIVE SeqsUpTo(_, _)
SeqsUpTo(S, n) ==
    IF n = 0 THEN {<<>>}
    ELSE LET shorter == SeqsUpTo(S, n - 1)
         IN shorter \cup {Append(q, x) : q \in {r \in shorter : Len(r) = n - 1}, x \in S}

RECURSIVE SumLen(_, _)
SumLen(f, S) ==
    IF S = {} THEN 0
    ELSE LET x == CHOOSE y \in S : TRUE IN Len(f[x]) + SumLen(f, S \ {x})

NoFile == [exists |-> FALSE, lines |-> <<>>]
File(lines) == [exists |-> TRUE, lines |-> lines]

NoRet == [fn |-> "none", ok |-> 0, failed |-> 0, n |-> 0]

\* line 2014-2015: what process_account has after `except SkipFolderException`
Skipped == [fn |-> "skip", ok |-> 0, failed |-> 0, n |-> 0]

VARIABLES
    e_pc,           \* position in process_account / download_messages / upload_messages
    transfers,      \* number of planned messages the transfer loops have handled
    restore,        \* config['restore']
    overwrite,      \* config['overwrite']
    thunderbird,    \* config['thunderbird']
    fi,             \* position of the folder loop in names
    remote,         \* the server: folder -> sequence of messages
    archive,        \* the disk: folder -> mbox file
    fol_messages,   \* result of scan_folder
    fil_messages,   \* result of scan_file
    new_messages,   \* the plan: new_messages (backup) / messages_to_upload (restore)
    msg_index,      \* entries of the plan (backup) / records of the file (restore) visited
    success_count,  \* success_count / uploaded
    failed_count,   \* failed_count / failed
    ret,            \* the tuple download_messages / upload_messages has just returned
    fetched,        \* sequence numbers of the full-message fetches of this folder
    appended,       \* identities of the APPENDs issued for this folder
    good,           \* the file at open time followed by the records of the messages counted as succeeded
    faults,         \* failures injected so far
    hist,           \* folder -> what is known of its first backup (history)
    archive0,       \* the disk when the run started
    remote0,        \* the server when the run started
    errors,         \* kinds of the diagnostic lines printed by this run
    selected,       \* the folder selected in the session (0 = none)
    s3_upload,      \* config['s3_upload'], as read at line 2021
    gpg_encrypt,    \* config['gpg_encrypt'], as read at line 2039
    encryption_failed,  \* local encryption_failed of process_account
    s3_uploads,     \* the files handed to upload_to_s3, in order
    account         \* what process_account returned: "none" | "True" | "False"

\* the post-backup phase of process_account
svars == <<s3_upload, gpg_encrypt, encryption_failed, s3_uploads, account>>

evars == <<e_pc, transfers, restore, overwrite, thunderbird, fi, remote, archive,
           fol_messages, fil_messages, new_messages, msg_index,
           success_count, failed_count, ret, fetched, appended, good,
           faults, hist, archive0, remote0, errors, selected, svars>>

\* a caller of the library functions of the module (scan_folder, scan_file,
\* parse_list, get_names) on arguments of its own
VARIABLES
    call,           \* the function called last and its arguments
    result          \* what that call returned or raised

pvars == <<call, result>>

(* The program as a whole (main in config-file mode, lines 2088-2169, and  *)
(* the path of each process_account call through lines 1860-2085).         *)
VARIABLES
    m_pc,           \* position in main / process_account
    accounts,       \* len(accounts) of the config file
    acct,           \* loop variable i of main: the account being processed
    main_success_count,   \* success_count of main
    main_failed_count,    \* failed_count of main
    success,        \* what process_account returned: "None" while it runs
    server_calls,   \* the methods called on `server` by this process_account call
    m_fi,           \* position of the folder loop of this process_account call
    summary,        \* the numbers of the "Summary:" line, <<>> before it is printed
    exit_status     \* exit status of the program, "None" while it runs

mvars == <<m_pc, accounts, acct, main_success_count, main_failed_count,
           success, server_calls, m_fi, summary, exit_status>>

vars == <<rvars, evars, pvars, mvars>>

RetryIdle ==
    /\ r_pc = "idle"
    /\ UNCHANGED <<r_pc, max_retries, delay, backoff, attempt, current_delay,
                   last_exception, r_result, trace, notices, sleeps, failmsgs,
                   invocations>>

\* what the wrapper hands back for server.fetch / server.append: the server
\* answers "OK" with the data, or "NO" for every response the caller cannot
\* use (lines 775-785, 656-658), or the call raises
ServerCallResults == RetryResults({"OK", "NO"})

\* the wrapper hands back typ = 'OK' from the first call of func
Answered == [pc |-> "returned", res |-> Ret("OK", 1)]

\* a failure of the disk or of the server is injected, within the budget
Fault(n) ==
    /\ faults + n <= MaxFaults
    /\ faults' = faults + n

\* a transfer loop takes the next planned message, within the budget
Transfer ==
    /\ transfers < MaxTransfers
    /\ transfers' = transfers + 1

\* a loop that ends when one folder is done
NextFolder_EndsLoop ==
    /\ fi' = Len(names) + 1
    /\ e_pc' = "folder"

\* the folder loop of process_account moves on (line 1979)
\* a loop that takes the same folder again
NextFolder_SameFolder ==
    /\ fi' = fi
    /\ e_pc' = "folder"

NextFolder ==
    /\ fi' = fi + 1
    /\ e_pc' = "folder"

\* the diagnostic lines a run prints, by kind
E_RETRY == "retrying"   \* line 192: "Retrying in %.1f seconds..."
E_SKIP  == "skip"       \* line 2015: the text of a SkipFolderException
E_MSG   == "message"    \* a WARNING / ERROR about one message
E_OPEN  == "open"       \* "ERROR: Cannot open file ..." / "Cannot delete file ..."
E_READ  == "read"       \* "ERROR: Failed while reading mailbox ..."
E_GPG   == "encrypt"    \* line 2055: "ERROR: GPG encryption failed ..."

\* what the wrapper printed before it handed back r: one notice for every
\* call of func but the last
Notices(r) == IF r.res.at > 1 THEN {E_RETRY} ELSE {}

\* the post-backup phase has not run
NoS3 ==
    /\ s3_upload' = FALSE
    /\ gpg_encrypt' = FALSE
    /\ encryption_failed' = FALSE
    /\ s3_uploads' = <<>>
    /\ account' = "none"

\* process_account is called (line 1860); connection and listing are given
StartRun ==
    /\ e_pc = "idle"
    /\ transfers < MaxTransfers     \* no run is observed once the budget is used up
    /\ \E rs \in BOOLEAN, ow \in BOOLEAN :
          /\ ~(rs /\ ow)          \* restore never reads config['overwrite']
          /\ restore' = rs
          /\ overwrite' = ow
    /\ fi' = 1
    /\ e_pc' = "folder"
    /\ archive0' = archive
    /\ remote0' = remote
    /\ ret' = NoRet
    /\ errors' = {}
    /\ selected' = 0               \* a new session (line 1880)
    /\ NoS3
    /\ RetryIdle
    /\ UNCHANGED <<pvars, mvars>>
    /\ UNCHANGED <<transfers, faults, hist, thunderbird, remote, archive,
                   fol_messages, fil_messages, new_messages, msg_index,
                   success_count, failed_count, fetched, appended, good>>

\* a scan that selects the first folder whatever folder it scans
Select_FirstFolder(f) == selected' = 1

\* line 953: the server answers OK to SELECT of folder f
Select(f) == selected' = f

\* the answers of the server to SELECT and to the identity-header fetches
\* for which scan_folder raises SkipFolderException
SkipCauses(msgs) ==
    {c \in [select : ServerCallResults, count_ok : BOOLEAN,
            fetch : [DOMAIN BatchRanges(1, Len(msgs), FETCH_BATCH_SIZE)
                       -> ServerCallResults]] :
        ScanFolder(msgs, FETCH_BATCH_SIZE, c.select, c.count_ok, c.fetch, {}).exc
            = "SkipFolderException"}

\* scan_folder raises SkipFolderException (lines 959-970, 995-1004):
\* process_account prints it and goes to the next folder (line 2014)
ScanFolderSkips ==
    /\ e_pc = "folder"
    /\ fi \in Folders
    /\ SkipCauses(remote[fi]) # {}
    /\ \/ Select(fi)
       \/ \* a SELECT that fails leaves no folder selected
          /\ {c \in SkipCauses(remote[fi]) : NotOK(c.select)} # {}
          /\ selected' = 0
    /\ NextFolder
    /\ Fault(1)
    /\ ret' = Skipped
    /\ errors' = errors \cup {E_SKIP}
    /\ RetryIdle
    /\ UNCHANGED <<pvars, mvars, svars>>
    /\ UNCHANGED <<transfers, restore, overwrite, thunderbird, remote, archive,
                   fol_messages, fil_messages, new_messages, msg_index,
                   success_count, failed_count, fetched, appended,
                   good, hist, archive0, remote0>>

\* a scan_file that reads the archive whatever the mode
ScanFile_IgnoresOverwrite(f, ow, cut) ==
    IF ~archive[f].exists THEN <<>> ELSE ScanMbox(archive[f].lines, cut)

\* scan_file (lines 836-933) with overwrite = ow; `cut` = the number of
\* records read before the mailbox became unreadable (all of them normally,
\* none when it cannot be opened)
ScanFile(f, ow, cut) ==
    IF ow THEN <<>>
    ELSE IF ~archive[f].exists THEN <<>>
    ELSE ScanMbox(archive[f].lines, cut)

\* process_account lines 1989-1996 and 2002-2008: scan_folder returns its
\* map, scan_file returns its map, and the plan is their difference
ScanAndPlan ==
    /\ e_pc = "folder"
    /\ fi \in Folders
    /\ \E nofetch \in SUBSET NeedsFallback(remote[fi]),
          cut \in 0..Len(Records(archive[fi].lines)) :
          /\ (~restore /\ overwrite) => cut = Len(Records(archive[fi].lines))
          /\ Fault(Cardinality(nofetch)
                   + IF cut < Len(Records(archive[fi].lines)) THEN 1 ELSE 0)
          /\ fol_messages' =
                ScanFolder(remote[fi], FETCH_BATCH_SIZE, Answered, TRUE,
                           [b \in DOMAIN BatchRanges(1, Len(remote[fi]), FETCH_BATCH_SIZE)
                              |-> Answered],
                           nofetch).messages
          /\ fil_messages' = ScanFile(fi, IF restore THEN FALSE ELSE overwrite, cut)
          /\ new_messages' = Plan(restore, fol_messages', fil_messages')
          /\ errors' = errors
                \cup (IF nofetch # {} THEN {E_MSG} ELSE {})
                \cup (IF cut < Len(Records(archive[fi].lines)) THEN {E_READ} ELSE {})
    /\ Select(fi)
    /\ e_pc' = "planned"
    /\ fetched' = {}
    /\ appended' = <<>>
    /\ ret' = NoRet
    /\ RetryIdle
    /\ UNCHANGED <<pvars, mvars, svars>>
    /\ UNCHANGED <<transfers, restore, overwrite, thunderbird, fi, remote, archive,
                   msg_index, success_count, failed_count, good, hist,
                   archive0, remote0>>

\* the variables process_account does not touch inside a folder
config == <<restore, overwrite, thunderbird, archive0, remote0>>

\* history of a folder: st = "open" while a download into an archive that
\* was nonexistent or empty is under way without a failure, "clean" when it
\* has ended so and the folder has not changed since, "none" otherwise;
\* keys = the identities scan_folder returned for that download
NoHist == [st |-> "none", keys |-> {}]

\* download_messages / upload_messages return (ok, failed, ...) to
\* process_account, which ignores the tuple and takes the next folder;
\* the locals of the folder's iteration are gone
Return(fn, ok, failed) ==
    /\ ret' = [fn |-> fn, ok |-> ok, failed |-> failed, n |-> Len(new_messages)]
    /\ NextFolder
    /\ fol_messages' = <<>>
    /\ fil_messages' = <<>>
    /\ new_messages' = <<>>
    /\ msg_index' = 0
    /\ success_count' = 0
    /\ failed_count' = 0
    /\ fetched' = {}
    /\ appended' = <<>>
    /\ good' = <<>>

\* open(fullname, 'wb'): the file is created or emptied
OpenForAppend_Truncates(file) == File(<<>>)

\* line 724: open(fullname, 'ab') creates the file or keeps what it holds
OpenForAppend(file) == File(file.lines)

\* a failure to open that is reported as "nothing to do"
OpenFailed_ReportsNothing == Return("download", 0, 0)

\* lines 720, 727: return (0, len(messages), 0)
OpenFailed == Return("download", 0, Len(new_messages))

\* download_messages lines 713-741: delete in overwrite mode, open for append
DlOpen ==
    /\ e_pc = "planned"
    /\ ~restore
    /\ \E io \in {"ok", "rmfail", "openfail"} :
          LET deletes == overwrite /\ archive[fi].exists
              before  == IF deletes /\ io # "rmfail" THEN NoFile ELSE archive[fi]
          IN /\ Fault(IF io = "ok" THEN 0 ELSE 1)
             /\ errors' = errors \cup (IF io = "ok" THEN {} ELSE {E_OPEN})
             /\ CASE io = "rmfail" ->
                    /\ deletes
                    /\ OpenFailed
                    /\ UNCHANGED archive
               [] io = "openfail" ->
                    /\ archive' = [archive EXCEPT ![fi] = before]
                    /\ OpenFailed
               [] OTHER ->
                    /\ archive' = [archive EXCEPT ![fi] = OpenForAppend(before)]
                    /\ IF Len(new_messages) = 0
                       THEN Return("download", 0, 0)
                       ELSE /\ e_pc' = "dl_loop"
                            /\ good' = before.lines
                            /\ msg_index' = 0
                            /\ success_count' = 0
                            /\ failed_count' = 0
                            /\ UNCHANGED <<fi, ret, fol_messages, fil_messages,
                                           new_messages, fetched, appended>>
             /\ hist' = [hist EXCEPT ![fi] =
                    IF io = "ok" /\ before.lines = <<>>
                    THEN [st   |-> IF Len(new_messages) = 0 THEN "clean" ELSE "open",
                          keys |-> Keys(fol_messages)]
                    ELSE NoHist]
    /\ RetryIdle
    /\ UNCHANGED <<pvars, mvars, svars, selected>>
    /\ UNCHANGED <<transfers, config, remote>>

\* a failure branch that forgets to count the message
CountFailure_Forgotten(n) == n

\* lines 772, 777, 784, 803, 816 of download_messages: failed_count += 1
CountFailure(n) == n + 1

\* lines 742-817: one iteration of the loop over the plan.  The separator
\* (and the synthesised Message-Id) is written, the message is fetched through
\* the wrapper, and its text is written
DlMessage ==
    /\ e_pc = "dl_loop"
    /\ msg_index < Len(new_messages)
    /\ msg_index' = msg_index + 1
    /\ Transfer
    /\ LET msg_id == new_messages[msg_index + 1].id
           num    == new_messages[msg_index + 1].num
           text_bytes == EncodeText(remote[fi][num], thunderbird)
           Failed(lines, printed) ==
               /\ Fault(1)
               /\ errors' = errors \cup printed \cup {E_MSG}
               /\ failed_count' = CountFailure(failed_count)
               /\ archive' = [archive EXCEPT ![fi].lines = @ \o lines]
               /\ hist' = [hist EXCEPT ![fi] = NoHist]
               /\ UNCHANGED <<success_count, good>>
       IN \/ \* line 758 raises: the catch-all of line 814
             /\ Failed(<<>>, {})
             /\ UNCHANGED fetched
          \/ /\ fetched' = fetched \cup {num}
             /\ \E r \in ServerCallResults :
                   IF r.pc = "returned" /\ r.res.v = "OK"
                   THEN \/ /\ archive' = [archive EXCEPT ![fi].lines =
                                  @ \o RecordHead(msg_id) \o text_bytes \o RecordEnd]
                           /\ success_count' = success_count + 1
                           /\ good' = good \o RecordHead(msg_id) \o text_bytes \o RecordEnd
                           /\ errors' = errors \cup Notices(r)
                           /\ UNCHANGED <<failed_count, faults, hist>>
                        \/ \* lines 801-804: the write of the text fails
                           Failed(RecordHead(msg_id), Notices(r))
                   ELSE \* lines 770-773, 775-778, 780-785, 814-817
                        Failed(RecordHead(msg_id), Notices(r))
    /\ RetryIdle
    /\ UNCHANGED <<pvars, mvars, svars, selected>>
    /\ UNCHANGED <<config, e_pc, fi, remote, fol_messages, fil_messages,
                   new_messages, ret, appended>>

\* lines 819-829: the loop is over
DlClose ==
    /\ e_pc = "dl_loop"
    /\ msg_index = Len(new_messages)
    /\ Return("download", success_count, failed_count)
    /\ hist' = [hist EXCEPT ![fi].st = IF @ = "open" THEN "clean" ELSE @]
    /\ RetryIdle
    /\ UNCHANGED <<pvars, mvars, svars, selected>>
    /\ UNCHANGED <<transfers, config, remote, archive, faults, errors>>

\* upload_messages lines 582-615
UlOpen ==
    /\ e_pc = "planned"
    /\ restore
    /\ \E io \in {"ok", "openfail"} :
         /\ Fault(IF io = "ok" THEN 0 ELSE 1)
         /\ errors' = errors \cup (IF io = "ok" THEN {} ELSE {E_OPEN})
         /\ CASE ~archive[fi].exists ->
                 /\ io = "ok"
                 /\ Return("upload", 0, Len(new_messages))
           [] archive[fi].exists /\ Len(new_messages) = 0 ->
                 /\ io = "ok"
                 /\ Return("upload", 0, 0)
           [] OTHER ->
                 IF io = "openfail"
                 THEN Return("upload", 0, Len(new_messages))
                 ELSE /\ e_pc' = "ul_loop"
                      /\ msg_index' = 0
                      /\ success_count' = 0
                      /\ failed_count' = 0
                      /\ UNCHANGED <<fi, ret, fol_messages, fil_messages,
                                     new_messages, fetched, appended, good>>
    /\ RetryIdle
    /\ UNCHANGED <<pvars, mvars, svars, selected>>
    /\ UNCHANGED <<transfers, config, remote, archive, hist>>

\* lines 617-669: one iteration of the loop over the records of the file
UlRecord ==
    /\ e_pc = "ul_loop"
    /\ msg_index < Len(Records(archive[fi].lines))
    /\ msg_index' = msg_index + 1
    /\ LET message == Records(archive[fi].lines)[msg_index + 1]
           msg_id  == EmailGet(message, <<>>)
           Failed(printed) ==
               /\ Fault(1)
               /\ errors' = errors \cup printed \cup {E_MSG}
               /\ failed_count' = failed_count + 1
               /\ UNCHANGED <<success_count, remote, hist>>
       IN IF msg_id \in Keys(new_messages)
          THEN /\ Transfer
               /\ \/ \* lines 634-637: the conversion to bytes fails
                     /\ Failed({})
                     /\ UNCHANGED appended
                  \/ /\ appended' = Append(appended, msg_id)
                     /\ \E r \in ServerCallResults :
                           IF r.pc = "returned" /\ r.res.v = "OK"
                           THEN /\ success_count' = success_count + 1
                                /\ remote' = [remote EXCEPT ![fi] =
                                                Append(@, DropLastBlank(message))]
                                /\ hist' = [hist EXCEPT ![fi] = NoHist]
                                /\ errors' = errors \cup Notices(r)
                                /\ UNCHANGED <<failed_count, faults>>
                           ELSE Failed(Notices(r))
          ELSE UNCHANGED <<transfers, appended, failed_count, success_count,
                           remote, faults, hist, errors>>
    /\ RetryIdle
    /\ UNCHANGED <<pvars, mvars, svars, selected>>
    /\ UNCHANGED <<config, e_pc, fi, archive, fol_messages, fil_messages,
                   new_messages, ret, fetched, good>>

\* lines 671-678: the mailbox becomes unreadable during the iteration
UlReadError ==
    /\ e_pc = "ul_loop"
    /\ msg_index < Len(Records(archive[fi].lines))
    /\ Return("upload", success_count, Len(new_messages) - success_count)
    /\ Fault(1)
    /\ errors' = errors \cup {E_READ}
    /\ RetryIdle
    /\ UNCHANGED <<pvars, mvars, svars, selected>>
    /\ UNCHANGED <<transfers, config, remote, archive, hist>>

\* lines 680-692: the iteration is over
UlClose ==
    /\ e_pc = "ul_loop"
    /\ msg_index = Len(Records(archive[fi].lines))
    /\ Return("upload", success_count, failed_count)
    /\ RetryIdle
    /\ UNCHANGED <<pvars, mvars, svars, selected>>
    /\ UNCHANGED <<transfers, config, remote, archive, faults, hist, errors>>

\* an archive file handed to the upload step
S3File(f, gpg) == [name |-> names[f], encrypted |-> gpg]

\* lines 2030-2050: the loop that collects files_to_upload, from folder f
\* on; nogpg = the folders whose file encrypt_file_gpg fails on
RECURSIVE FilesToUpload(_, _, _)
FilesToUpload(f, gpg, nogpg) ==
    IF f > Len(names) THEN <<>>
    ELSE (IF archive[f].exists /\ ~(gpg /\ f \in nogpg)
          THEN <<S3File(f, gpg)>> ELSE <<>>)
         \o FilesToUpload(f + 1, gpg, nogpg)

\* a phase that uploads what it could encrypt and goes on
S3Phase_UploadsTheRest(gpg, nogpg) ==
    [encryption_failed |-> gpg /\ nogpg # {},
     uploads |-> FilesToUpload(1, gpg, nogpg),
     account |-> "True"]

\* lines 2021-2085: the files are collected (and encrypted); after a failed
\* encryption process_account returns False before the upload loop
S3Phase(gpg, nogpg) ==
    IF gpg /\ nogpg # {}
    THEN [encryption_failed |-> TRUE, uploads |-> <<>>, account |-> "False"]
    ELSE [encryption_failed |-> FALSE,
          uploads |-> FilesToUpload(1, gpg, nogpg),
          account |-> "True"]

\* lines 2017-2085: after the last folder the session is closed, the
\* archive files are encrypted and uploaded if the configuration asks for
\* it, and process_account returns
Logout ==
    /\ e_pc = "folder"
    /\ fi > Len(names)
    /\ e_pc' = "idle"
    /\ selected' = 0               \* line 2018: server.logout()
    /\ ret' = NoRet
    /\ fi' = 1
    /\ restore' = FALSE
    /\ overwrite' = FALSE
    /\ archive0' = archive
    /\ remote0' = remote
    /\ \E s3 \in BOOLEAN, gpg \in BOOLEAN,
          nogpg \in SUBSET {f \in Folders : archive[f].exists} :
          /\ nogpg # {} => gpg
          /\ gpg => s3                   \* gpg_encrypt is read in this phase only
          /\ s3 => ~restore              \* line 2021
          /\ Fault(Cardinality(nogpg))
          /\ s3_upload' = s3
          /\ gpg_encrypt' = gpg
          /\ IF s3
             THEN /\ encryption_failed' = S3Phase(gpg, nogpg).encryption_failed
                  /\ s3_uploads' = S3Phase(gpg, nogpg).uploads
                  /\ account' = S3Phase(gpg, nogpg).account
                  /\ errors' = errors \cup (IF S3Phase(gpg, nogpg).encryption_failed
                                             THEN {E_GPG} ELSE {})
             ELSE /\ encryption_failed' = FALSE
                  /\ s3_uploads' = <<>>
                  /\ account' = "True"
                  /\ errors' = errors
    /\ RetryIdle
    /\ UNCHANGED <<pvars, mvars>>
    /\ UNCHANGED <<transfers, thunderbird, remote, archive, fol_messages,
                   fil_messages, new_messages, msg_index, success_count,
                   failed_count, fetched, appended, good, hist>>

\* between two runs another client expunges the oldest message of a folder:
\* the sequence numbers of the messages that remain change
ServerExpunge ==
    /\ e_pc = "idle"
    /\ \E f \in Folders :
          /\ remote[f] # <<>>
          /\ remote' = [remote EXCEPT ![f] = Tail(@)]
          /\ hist' = [hist EXCEPT ![f] = NoHist]
    /\ remote0' = remote'
    /\ RetryIdle
    /\ UNCHANGED <<pvars, mvars, svars, errors, selected>>
    /\ UNCHANGED <<e_pc, transfers, restore, overwrite, thunderbird, fi, archive,
                   fol_messages, fil_messages, new_messages, msg_index,
                   success_count, failed_count, ret, fetched, appended, good,
                   faults, archive0>>

(* ---------------------------------------------------------------------- *)
(* Specification of the wrapper alone: a caller invokes it repeatedly     *)
(* with arbitrary arguments and an arbitrary func.                         *)
(* ---------------------------------------------------------------------- *)
InitRetry ==
    /\ r_pc = "idle"
    /\ max_retries = DEFAULT_MAX_RETRIES
    /\ delay = DEFAULT_RETRY_DELAY
    /\ backoff = DEFAULT_RETRY_BACKOFF
    /\ attempt = 0
    /\ current_delay = DEFAULT_RETRY_DELAY
    /\ last_exception = NoExc
    /\ r_result = NoExc
    /\ trace = <<>>
    /\ notices = 0
    /\ sleeps = <<>>
    /\ failmsgs = 0
    /\ invocations = 0

CallerInvokes ==
    /\ r_pc \in {"idle", "returned", "raised"}
    /\ invocations < MaxInvocations
    /\ \E m \in 1..MaxRetriesBound, d \in DelayChoices, b \in BackoffChoices :
          RetryEnter(m, d, b)
    /\ UNCHANGED <<evars, pvars, mvars>>

FuncReturns ==
    /\ \E v \in ReturnValues : RetryFuncReturns(v)
    /\ UNCHANGED <<evars, pvars, mvars>>

FuncRaises ==
    /\ \E kind \in TransientKinds \cup OtherKinds : RetryFuncRaises(kind)
    /\ UNCHANGED <<evars, pvars, mvars>>

NextRetry ==
    \/ CallerInvokes
    \/ FuncReturns
    \/ FuncRaises


(* ---------------------------------------------------------------------- *)
(* Properties of the retry wrapper (specification SpecRetry)               *)
(* ---------------------------------------------------------------------- *)
\* the calls of func, so far, that raised a transient error
TransientCalls == {i \in DOMAIN trace : trace[i].k \in TransientKinds}

\* the calls of func, so far, that returned
ReturningCalls == {i \in DOMAIN trace : trace[i].k = "ret"}

\* the calls of func, so far, that raised an error of another class
OtherCalls == {i \in DOMAIN trace : trace[i].k \in OtherKinds}

\* C8: when func fails transiently f times (f < max_retries) and then
\* succeeds, the wrapper has called func exactly f + 1 times, has printed
\* exactly f retry notices (and slept f times), returns the value of the
\* successful call, and never calls func after the call that succeeded.
C8_RetryThenSuccess ==
    /\ \A i \in ReturningCalls :
          /\ i = Len(trace)
          /\ r_pc = "returned"
    /\ r_pc = "returned" =>
          LET f == Cardinality(TransientCalls) IN
          /\ f < max_retries
          /\ Len(trace) = f + 1
          /\ TransientCalls = 1..f
          /\ notices = f
          /\ Len(sleeps) = f
          /\ failmsgs = 0
          /\ r_result = trace[f + 1]
          /\ r_result.k = "ret"

\* two transient failures and then a success, with a fourth attempt to spare
C8_Witness ==
    /\ r_pc = "returned"
    /\ max_retries = 4
    /\ Len(trace) = 3
    /\ TransientCalls = {1, 2}
    /\ notices = 2

\* C9: when every attempt fails with a transient error, func has been
\* called exactly max_retries times, the wrapper has slept exactly
\* max_retries - 1 times (no sleep after the last attempt), and the error
\* of the last attempt is the one that reaches the caller.
C9_AllAttemptsFail ==
    (r_pc = "raised" /\ TransientCalls = DOMAIN trace) =>
        /\ Len(trace) = max_retries
        /\ Len(sleeps) = max_retries - 1
        /\ notices = max_retries - 1
        /\ failmsgs = 1
        /\ r_result = trace[max_retries]
        /\ r_result.at = max_retries

\* three attempts, all failed, the third error raised to the caller
C9_Witness ==
    /\ r_pc = "raised"
    /\ max_retries = 3
    /\ TransientCalls = {1, 2, 3}
    /\ Len(sleeps) = 2
    /\ r_result = trace[3]

\* C10: an error that is not of a transient class is raised to the caller
\* at once: the call that raised it is the last call of func, no notice is
\* printed and no sleep is made for it, whatever attempts remain.
C10_OtherErrorPropagates ==
    \A i \in OtherCalls :
        /\ i = Len(trace)
        /\ r_pc = "raised"
        /\ r_result = trace[i]
        /\ notices = i - 1
        /\ Len(sleeps) = i - 1
        /\ failmsgs = 0

\* a non-transient error at the second of four attempts ends the invocation
C10_Witness ==
    /\ r_pc = "raised"
    /\ max_retries = 4
    /\ Len(trace) = 2
    /\ OtherCalls = {2}
    /\ r_result = trace[2]

RECURSIVE Pow(_, _)
Pow(b, e) == IF e = 0 THEN 1 ELSE b * Pow(b, e - 1)

\* C26: the delay taken before the k-th retry of an invocation (k >= 1) is
\* delay * backoff^(k-1), and every invocation starts again from `delay`,
\* whatever the invocations before it did.
C26_BackoffDelays ==
    /\ \A k \in DOMAIN sleeps : sleeps[k] = delay * Pow(backoff, k - 1)
    /\ r_pc # "idle" => current_delay = delay * Pow(backoff, Len(sleeps))

\* the second invocation, with delay 3 and backoff 3, has slept 3, 9 and 27
\* seconds before its second, third and fourth attempt
C26_Witness ==
    /\ invocations = 2
    /\ delay = 3
    /\ backoff = 3
    /\ sleeps = <<3, 9, 27>>

(* ---------------------------------------------------------------------- *)
(* Specification of the engine                                             *)
(* ---------------------------------------------------------------------- *)
InitEngine ==
    /\ e_pc = "idle"
    /\ transfers = 0
    /\ restore = FALSE
    /\ overwrite = FALSE
    /\ thunderbird \in BOOLEAN
    /\ fi = 1
    /\ remote \in {r \in [Folders -> SeqsUpTo(MsgPool, MaxMsgs)] :
                      /\ SumLen(r, Folders) <= MaxMsgs
                      /\ r[2] \in SeqsUpTo(SentPool, MaxSent)}
    /\ archive = [f \in Folders |-> NoFile]
    /\ fol_messages = <<>>
    /\ fil_messages = <<>>
    /\ new_messages = <<>>
    /\ msg_index = 0
    /\ success_count = 0
    /\ failed_count = 0
    /\ ret = NoRet
    /\ fetched = {}
    /\ appended = <<>>
    /\ good = <<>>
    /\ faults = 0
    /\ hist = [f \in Folders |-> NoHist]
    /\ archive0 = archive
    /\ remote0 = remote
    /\ errors = {}
    /\ selected = 0
    /\ s3_upload = FALSE
    /\ gpg_encrypt = FALSE
    /\ encryption_failed = FALSE
    /\ s3_uploads = <<>>
    /\ account = "none"

\* no library function has been called
NoCall == [fn |-> "none"]

\* main has not started
NoMain ==
    /\ m_pc = "idle"
    /\ accounts = 0
    /\ acct = 0
    /\ main_success_count = 0
    /\ main_failed_count = 0
    /\ success = "None"
    /\ server_calls = <<>>
    /\ m_fi = 0
    /\ summary = <<>>
    /\ exit_status = "None"

InitCalls ==
    /\ call = NoCall
    /\ result = NoCall
    /\ NoMain

Init == InitRetry /\ InitEngine /\ InitCalls

\* the wrapper alone: the engine stays idle on an empty account
InitRetryOnly ==
    /\ InitRetry
    /\ InitEngine
    /\ InitCalls
    /\ ~thunderbird
    /\ remote = [f \in Folders |-> <<>>]
    /\ archive = [f \in Folders |-> NoFile]

SpecRetry == InitRetryOnly /\ [][NextRetry]_vars

Next ==
    \/ StartRun
    \/ ScanFolderSkips
    \/ ScanAndPlan
    \/ DlOpen
    \/ DlMessage
    \/ DlClose
    \/ UlOpen
    \/ UlRecord
    \/ UlReadError
    \/ UlClose
    \/ Logout
    \/ ServerExpunge

Spec == Init /\ [][Next]_vars

\* the steps of a run of process_account in which no folder is skipped
\* and the archive is read to its end
RunStep ==
    \/ ScanAndPlan
    \/ DlOpen
    \/ DlMessage
    \/ DlClose
    \/ UlOpen
    \/ UlRecord
    \/ UlClose
    \/ Logout

\* the program is sequential and no call blocks for ever (every call on
\* the server ends by the socket timeout of line 1626 at the latest): a
\* run that can go on goes on, by one of these steps or by a step in
\* which a folder is skipped or the archive cannot be read
\* an account of two folders: a message with a Message-Id in the first,
\* a message without one in the second
InitFair ==
    /\ Init
    /\ ~thunderbird
    /\ remote = << <<<<MidLine(0, <<"<a@x>">>), HdrLine("s1"), BlankLine,
                       FromLine(0), TextLine>>>>,
                   <<<<HdrLine("s1"), BlankLine, TextLine, FromLine(1)>>>> >>

SpecFair == InitFair /\ [][Next]_vars /\ WF_vars(RunStep)

(* ---------------------------------------------------------------------- *)
(* Part 4: the library functions, called one at a time by a caller that    *)
(* chooses the arguments and the answers of the server (specification      *)
(* SpecCalls); the wrapper and the engine stay idle                         *)
(* ---------------------------------------------------------------------- *)
MaxScanLen == 3     \* messages in a folder handed to scan_folder
MaxBatchSize == 2   \* values FETCH_BATCH_SIZE is set to (1..MaxBatchSize)

(* ---- the identity of one message, character by character -------------- *)
(* A string is a sequence of tokens: a word (characters none of which is   *)
(* white space) or one white-space character, "SP", "TAB", "CRLF" (the     *)
(* pair \r\n) or "LF".  Two words side by side have nothing between them.  *)
(* A header field is [name, body]: the name with its colon, and the tokens  *)
(* between the colon and the end of the line; "FOLD" in a body is a line    *)
(* ending followed by a space (a folded header).                            *)
Blanks == {"SP", "TAB", "CRLF", "LF"}

Field(name, body) == [name |-> name, body |-> body]

\* re.IGNORECASE: the spellings of the header name
MidNames == {"Message-Id:", "MESSAGE-ID:"}
AltNames == {"From:", "To:", "Cc:", "Date:", "Subject:"}

\* a header as the server sends it, with the line ending `eol`, closed by
\* an empty line
RECURSIVE Unfold(_, _)
Unfold(body, eol) ==
    IF body = <<>> THEN <<>>
    ELSE (IF Head(body) = "FOLD" THEN <<eol, "SP">> ELSE <<Head(body)>>)
         \o Unfold(Tail(body), eol)

RECURSIVE FieldLines(_, _)
FieldLines(fields, eol) ==
    IF fields = <<>> THEN <<>>
    ELSE <<Head(fields).name>> \o Unfold(Head(fields).body, eol) \o <<eol>>
         \o FieldLines(Tail(fields), eol)

\* lines 989, 1029: BODY[HEADER.FIELDS (...)], the fields of the header
\* whose name is one of `fieldnames`, in the order of the header
HeaderFields(header, fieldnames, eol) ==
    FieldLines(SelectSeq(header, LAMBDA f : f.name \in fieldnames), eol) \o <<eol>>

\* str.strip()
RECURSIVE TextStripLeft(_)
TextStripLeft(str) ==
    IF str # <<>> /\ Head(str) \in Blanks THEN TextStripLeft(Tail(str)) ELSE str

RECURSIVE TextStripRight(_)
TextStripRight(str) ==
    IF str # <<>> /\ str[Len(str)] \in Blanks
    THEN TextStripRight(SubSeq(str, 1, Len(str) - 1)) ELSE str

TextStrip(str) == TextStripRight(TextStripLeft(str))

\* line 150, 1018: BLANKS_RE.sub(' ', header), every run of white space
\* becomes one space
RECURSIVE BlanksSub(_)
BlanksSub(str) ==
    IF str = <<>> THEN <<>>
    ELSE IF Head(str) \in Blanks
         THEN <<"SP">> \o BlanksSub(TextStripLeft(Tail(str)))
         ELSE <<Head(str)>> \o BlanksSub(Tail(str))

\* the characters `.` matches from position i on: up to the next line ending
RECURSIVE DotPlus(_, _)
DotPlus(str, i) ==
    IF i > Len(str) \/ str[i] \in {"CRLF", "LF"} THEN <<>>
    ELSE <<str[i]>> \o DotPlus(str, i + 1)

\* line 149, 1020: MSGID_RE.match(header).group(1) for r"^Message-Id: (.+)";
\* <<>> stands for the AttributeError of `None.group`
MsgIdGroup(str) ==
    IF Len(str) >= 3 /\ str[1] \in MidNames /\ str[2] = "SP"
    THEN DotPlus(str, 3) ELSE <<>>

\* line 1044: header.replace('\r\n', '\t')
ReplaceCRLF(str) == [i \in DOMAIN str |-> IF str[i] = "CRLF" THEN "TAB" ELSE str[i]]

\* lines 1045-1046: '<' + UUID + '.' + sha1(header).hexdigest() + '>'; the
\* digest of a string is modelled by the string (sha1 taken as injective)
Synthesised(str) == <<"<UUID.">> \o str \o <<">">>

\* lines 1012-1048: the identity scan_folder gives a message with this
\* header, on a server that ends lines with `eol`
ResolveIdentity(header, eol) ==
    LET msg_id == MsgIdGroup(BlanksSub(TextStrip(HeaderFields(header, MidNames, eol))))
    IN IF msg_id # <<>> THEN [path |-> "header", id |-> msg_id]
       ELSE [path |-> "fallback",
             id |-> Synthesised(ReplaceCRLF(TextStrip(HeaderFields(header, AltNames, eol))))]

MaxFields == 3   \* header fields of a message handed to the resolution

\* the header fields a message may have
FieldPool == {
    Field("Message-Id:", <<"SP", "<a@x>">>),
    \* folded after the name, a comment, spaces at the end of the line
    Field("MESSAGE-ID:", <<"FOLD", "<b@x>", "SP", "TAB", "(c)", "SP", "SP">>),
    \* nothing between the colon and the value
    Field("Message-Id:", <<"<c@x>">>),
    Field("From:", <<"SP", "a">>),
    Field("Subject:", <<"SP", "s", "FOLD", "t">>) }

ResolveCalls ==
    {[fn |-> "resolve", header |-> header, eol |-> eol] :
        header \in SeqsUpTo(FieldPool, MaxFields), eol \in {"CRLF", "LF"}}

MaxRecords == 3   \* records of an archive handed to scan_file

\* the records an archive made by any mail program may hold
RecordPool == {
    <<SepLine, MidLine(0, <<"<a@x>">>), HdrLine("s1"), BlankLine, TextLine, BlankLine>>,
    \* no Message-Id header
    <<SepLine, HdrLine("s1"), BlankLine, TextLine, BlankLine>>,
    \* a Message-Id header without a value
    <<SepLine, MidLine(0, <<>>), HdrLine("s2"), BlankLine, TextLine, BlankLine>>,
    \* a second record with the identity of the first
    <<SepLine, HdrLine("s2"), MidLine(1, <<"<a@x>">>), BlankLine, BlankLine>>,
    <<SepLine, MidLine(0, <<"<b@x>", "(c)">>), BlankLine, TextLine, BlankLine>> }

RECURSIVE Flatten(_)
Flatten(seqs) == IF seqs = <<>> THEN <<>> ELSE Head(seqs) \o Flatten(Tail(seqs))

ScanFileCalls ==
    UNION {{[fn |-> "scan_file", lines |-> Flatten(recs), cut |-> cut] :
                cut \in 0..Len(recs)} :
           recs \in SeqsUpTo(RecordPool, MaxRecords)}

(* ---- parse_list: one line of the LIST response ------------------------- *)
(* A row is a string (a sequence of tokens as above); here a token is "(",  *)
(* ")", "DQ" (a double quote), "BS" (a backslash), a white-space character, *)
(* a run of letters and digits (Alnum), or another character.               *)
Alnum == {"A", "B", "INBOX", "Inbox", "ES", "My", "Folder", "a", "b", "mbox"}

\* an element of the list parse_paren_list returns: an attribute (a
\* string) or a nested list
Attr(str) == [t |-> "attr", name |-> str, items |-> <<>>]
List(items) == [t |-> "list", name |-> <<>>, items |-> items]

\* what a function hands back: a value, or an exception
Returns(value) == [exc |-> "None", value |-> value]
Raises(exc) == [exc |-> exc, value |-> <<>>]

\* the length of the run of letters and digits a string starts with
RECURSIVE AlnumLen(_)
AlnumLen(str) ==
    IF str # <<>> /\ Head(str) \in Alnum THEN 1 + AlnumLen(Tail(str)) ELSE 0

\* line 1086, 1096-1100: name_attrib_re.search(row) for
\* r"^\s*(\\[a-zA-Z0-9_]+)\s*"; the attribute and the row after the match
NameAttrib(row) ==
    LET r == TextStripLeft(row)
        n == AlnumLen(Tail(r))
    IN IF Len(r) >= 2 /\ r[1] = "BS" /\ n >= 1
       THEN [ok |-> TRUE, name_attrib |-> SubSeq(r, 1, 1 + n),
             row |-> TextStripLeft(SubSeq(r, 2 + n, Len(r)))]
       ELSE [ok |-> FALSE, name_attrib |-> <<>>, row |-> row]

\* parse_paren_list (lines 1077-1108): Returns(<<result, row>>), or the
\* AssertionError of lines 1080, 1097, or the IndexError of row[0] on an
\* empty row (lines 1080, 1089)
RECURSIVE parse_paren_list(_)
RECURSIVE EatAttributes(_, _)
parse_paren_list(row) ==
    IF row = <<>> THEN Raises("IndexError")
    ELSE IF Head(row) # "(" THEN Raises("AssertionError")
    ELSE EatAttributes(Tail(row), <<>>)

\* lines 1089-1108: the loop `while row[0] != ')'`; attribs is the local
\* `result`
EatAttributes(row, attribs) ==
    IF row = <<>> THEN Raises("IndexError")
    ELSE IF Head(row) = ")" THEN Returns(<<attribs, Tail(row)>>)
    ELSE IF Head(row) = "("
         THEN LET r == parse_paren_list(row)
              IN IF r.exc # "None" THEN r
                 ELSE EatAttributes(r.value[2], Append(attribs, List(r.value[1])))
         ELSE LET match == NameAttrib(row)
              IN IF ~match.ok THEN Raises("AssertionError")
                 ELSE EatAttributes(match.row, Append(attribs, Attr(match.name_attrib)))

\* the position of the first double quote of a string, 0 when it has none
RECURSIVE FindDQ(_, _)
FindDQ(str, i) ==
    IF i > Len(str) THEN 0
    ELSE IF str[i] = "DQ" THEN i ELSE FindDQ(str, i + 1)

\* the length of the run of characters other than white space a string
\* starts with
RECURSIVE NonBlankLen(_)
NonBlankLen(str) ==
    IF str # <<>> /\ Head(str) \notin Blanks THEN 1 + NonBlankLen(Tail(str)) ELSE 0

\* parse_string_list (lines 1111-1114): the split on
\* r'\s*"([^"]+)"\s*|\s*(\S+)\s*' and the non-empty pieces of it
RECURSIVE parse_string_list(_)
parse_string_list(row) ==
    LET r == TextStripLeft(row)
        close == IF r # <<>> /\ Head(r) = "DQ" THEN FindDQ(r, 2) ELSE 0
        n == NonBlankLen(r)
    IN IF r = <<>> THEN <<>>
       ELSE IF close >= 3
            THEN <<SubSeq(r, 2, close - 1)>>
                 \o parse_string_list(SubSeq(r, close + 1, Len(r)))
            ELSE <<SubSeq(r, 1, n)>> \o parse_string_list(SubSeq(r, n + 1, Len(r)))

\* a parse_list without the assertion of line 1123
parse_list_NoAssert(row) ==
    LET paren == parse_paren_list(TextStrip(row))
        string_list == parse_string_list(paren.value[2])
    IN IF paren.exc # "None" THEN paren
       ELSE Returns(<<paren.value[1]>> \o string_list)

\* parse_list (lines 1117-1124)
parse_list(row) ==
    LET paren == parse_paren_list(TextStrip(row))
        string_list == parse_string_list(paren.value[2])
    IN IF paren.exc # "None" THEN paren
       ELSE IF Len(string_list) # 2 THEN Raises("AssertionError")
       ELSE Returns(<<paren.value[1]>> \o string_list)

MaxAttrs == 2    \* elements of one attribute list of a listing line
MaxTokens == 3   \* strings after the attribute list of a listing line

AttrNames == {<<"BS", "A">>, <<"BS", "B">>}

\* the attribute lists of the listing lines: attributes and nested lists of
\* attributes
AttrItems ==
    {Attr(a) : a \in AttrNames}
    \cup {List(l) : l \in SeqsUpTo({Attr(a) : a \in AttrNames}, MaxAttrs)}

AttrLists == SeqsUpTo(AttrItems, MaxAttrs)

\* an attribute list as the server writes it: the elements separated by one
\* space, between parentheses
RECURSIVE WriteItems(_)
WriteItems(items) ==
    IF items = <<>> THEN <<>>
    ELSE (IF Head(items).t = "attr" THEN Head(items).name
          ELSE <<"(">> \o WriteItems(Head(items).items) \o <<")">>)
         \o (IF Tail(items) = <<>> THEN <<>> ELSE <<"SP">> \o WriteItems(Tail(items)))

\* a string after the attribute list: quoted or bare
Token(q, str) == [q |-> q, v |-> str]

DelimTokens == {Token(TRUE, <<"/">>), Token(TRUE, <<".">>)}

NameTokens == {
    Token(TRUE, <<"INBOX">>),
    Token(FALSE, <<"INBOX">>),
    Token(TRUE, <<"My", "SP", "Folder">>),
    Token(TRUE, <<"a", "/", "b">>),
    Token(FALSE, <<"a", ".", "b", ".", "mbox">>) }

RECURSIVE WriteTokens(_)
WriteTokens(tokens) ==
    IF tokens = <<>> THEN <<>>
    ELSE <<"SP">>
         \o (IF Head(tokens).q THEN <<"DQ">> \o Head(tokens).v \o <<"DQ">>
              ELSE Head(tokens).v)
         \o WriteTokens(Tail(tokens))

\* a line of the LIST response; shape = "ok", or what is wrong with the
\* parentheses of its attribute list
ListingLine(shape, attrs, tokens) ==
    (CASE shape = "ok"        -> <<"(">> \o WriteItems(attrs) \o <<")">>
       [] shape = "noopen"    -> WriteItems(attrs) \o <<")">>
       [] shape = "noclose"   -> <<"(">> \o WriteItems(attrs)
       [] shape = "extraopen" -> <<"(", "(">> \o WriteItems(attrs) \o <<")">>)
    \o WriteTokens(tokens)

ParseListArgs(shape, attrs, tokens) ==
    [fn |-> "parse_list", shape |-> shape, attrs |-> attrs, tokens |-> tokens,
     row |-> ListingLine(shape, attrs, tokens)]

\* the calls parse_list(row): well-formed lines, lines whose attribute list
\* is not opened or not closed, lines with another number of strings than two
ParseListCalls ==
    {ParseListArgs("ok", attrs, <<d, n>>) :
        attrs \in AttrLists, d \in DelimTokens, n \in NameTokens}
    \cup {ParseListArgs(shape, attrs, <<Token(TRUE, <<"/">>), n>>) :
        shape \in {"noopen", "noclose", "extraopen"}, attrs \in AttrLists,
        n \in {Token(TRUE, <<"INBOX">>), Token(FALSE, <<"INBOX">>)}}
    \cup {ParseListArgs("ok", attrs, tokens) :
        attrs \in SeqsUpTo(AttrItems, 1),
        tokens \in {t \in SeqsUpTo(DelimTokens \cup NameTokens, MaxTokens) : Len(t) # 2}}

\* a join that puts nothing in the place of the delimiter
JoinSplit_KeepsDelim(str, delim, glue) == str

\* lines 1145, 1149: glue.join(str.split(delim)), every occurrence of delim
\* from left to right gives way to glue
RECURSIVE JoinSplit(_, _, _)
JoinSplit(str, delim, glue) ==
    IF str = <<>> THEN <<>>
    ELSE IF Len(str) >= Len(delim) /\ SubSeq(str, 1, Len(delim)) = delim
         THEN glue \o JoinSplit(SubSeq(str, Len(delim) + 1, Len(str)), delim, glue)
         ELSE <<Head(str)>> \o JoinSplit(Tail(str), delim, glue)

\* lines 1141-1152: the (foldername, filename) pair get_names makes of one
\* row of the LIST response
NamePair(row, tb) ==
    LET lst == parse_list(row)
        delim == lst.value[2]
        foldername == lst.value[3]
        sbd == JoinSplit(foldername, delim, <<".", "sbd", "/">>)
    IN IF lst.exc # "None" THEN lst
       ELSE Returns(<<foldername,
                IF tb
                THEN (IF sbd # <<>> /\ Head(sbd) = "INBOX"
                      THEN [i \in DOMAIN sbd |-> IF sbd[i] = "INBOX" THEN "Inbox" ELSE sbd[i]]
                      ELSE sbd)
                ELSE JoinSplit(foldername, delim, <<".">>) \o <<".", "mbox">>>>)

\* the folder names a server lists: those above, and INBOX/INBOX,
\* INBOX/Inbox, INBOXES and a.b
ListedNames ==
    NameTokens \cup {
        Token(TRUE, <<"INBOX", "/", "INBOX">>),
        Token(TRUE, <<"INBOX", "/", "Inbox">>),
        Token(TRUE, <<"INBOX", "ES">>),
        Token(TRUE, <<"a", ".", "b">>) }

\* the calls get_names(server, thunderbird, nospinner) on a server that
\* lists one folder
GetNamesCalls ==
    {[fn |-> "get_names", thunderbird |-> tb, delim |-> d.v, name |-> n.v,
      row |-> ListingLine("ok", <<Attr(<<"BS", "A">>)>>, <<d, n>>)] :
        tb \in BOOLEAN, d \in DelimTokens, n \in ListedNames}

\* lines 1136-1157: the list get_names makes of the rows of a LIST
\* response, one (foldername, filename) pair per row, in the order of the
\* rows; a row parse_list fails on ends the call
RECURSIVE get_names(_, _)
get_names(data, tb) ==
    IF data = <<>> THEN Returns(<<>>)
    ELSE LET pair == NamePair(Head(data), tb)
             rest == get_names(Tail(data), tb)
         IN IF pair.exc # "None" THEN pair
            ELSE IF rest.exc # "None" THEN rest
            ELSE Returns(<<pair.value>> \o rest.value)

\* the calls get_names(server, thunderbird, nospinner) on a server that
\* lists two folders of different names under one delimiter
ListingArgs(tb, d, n1, n2) ==
    [fn |-> "get_names_listing", thunderbird |-> tb, delim |-> d.v,
     names |-> <<n1.v, n2.v>>,
     data |-> <<ListingLine("ok", <<Attr(<<"BS", "A">>)>>, <<d, n1>>),
                ListingLine("ok", <<Attr(<<"BS", "A">>)>>, <<d, n2>>)>>]

ListingCalls ==
    {ListingArgs(c[1], c[2], c[3], c[4]) :
        c \in {x \in BOOLEAN \X DelimTokens \X ListedNames \X ListedNames :
                  x[3].v # x[4].v}}

(* ---- the text download_messages writes for a message ------------------- *)
(* The bytes of a message are a sequence of tokens: "LF", "CR", "SP", ">",  *)
(* "From " (the five bytes of the separator word) and "x" (a run of other   *)
(* bytes).                                                                   *)
MaxLines == 3    \* lines of a message handed to the encoding

\* bytes.strip() removes ASCII white space at both ends
ByteBlanks == {"SP", "CR", "LF"}

RECURSIVE BytesStripLeft(_)
BytesStripLeft(data) ==
    IF data # <<>> /\ Head(data) \in ByteBlanks THEN BytesStripLeft(Tail(data))
    ELSE data

RECURSIVE BytesStripRight(_)
BytesStripRight(data) ==
    IF data # <<>> /\ data[Len(data)] \in ByteBlanks
    THEN BytesStripRight(SubSeq(data, 1, Len(data) - 1))
    ELSE data

\* line 787: data_bytes.strip().replace(b'\r', b'')
StripAndDropCR(data) ==
    SelectSeq(BytesStripRight(BytesStripLeft(data)), LAMBDA c : c # "CR")

\* the number of '>' at the start of data
RECURSIVE QuoteDepth(_)
QuoteDepth(data) ==
    IF data # <<>> /\ Head(data) = ">" THEN 1 + QuoteDepth(Tail(data)) ELSE 0

\* lines 738, 796: from_re.sub(b"\n>\\1From ", text_bytes) with
\* from_re = b"\n(>*)From "
RECURSIVE FromSub(_)
FromSub(data) ==
    IF data = <<>> THEN <<>>
    ELSE LET k == QuoteDepth(Tail(data))
         IN IF Head(data) = "LF" /\ Len(data) >= k + 2 /\ data[k + 2] = "From "
            THEN <<"LF", ">">> \o SubSeq(data, 2, k + 2)
                 \o FromSub(SubSeq(data, k + 3, Len(data)))
            ELSE <<Head(data)>> \o FromSub(Tail(data))

\* line 791: text_bytes.replace(b"\nFrom ", b"\n From ")
RECURSIVE SpaceSub(_)
SpaceSub(data) ==
    IF data = <<>> THEN <<>>
    ELSE IF Head(data) = "LF" /\ Len(data) >= 2 /\ data[2] = "From "
         THEN <<"LF", "SP", "From ">> \o SpaceSub(SubSeq(data, 3, Len(data)))
         ELSE <<Head(data)>> \o SpaceSub(Tail(data))

\* lines 787-796: text_bytes, the text written for the message data_bytes
EncodeBytes(data_bytes, tb) ==
    IF tb THEN SpaceSub(StripAndDropCR(data_bytes))
    ELSE FromSub(StripAndDropCR(data_bytes))

\* the lines a message may have
LinePool == {
    <<>>,
    <<"x">>,
    <<"From ", "x">>,
    <<">", "From ", "x">>,
    <<">", ">", "From ", "x">>,
    <<">", "x">>,
    <<"SP", "From ", "x">> }

\* the lines, each followed by the line ending eol
RECURSIVE WriteLines(_, _)
WriteLines(lines, eol) ==
    IF lines = <<>> THEN <<>>
    ELSE Head(lines) \o eol \o WriteLines(Tail(lines), eol)

\* the messages the server hands to download_messages (data[0][1]), with
\* the line endings of the wire or those of a Unix file
EncodeCalls ==
    {[fn |-> "encode", thunderbird |-> tb, data_bytes |-> WriteLines(lines, eol)] :
        tb \in BOOLEAN, eol \in {<<"CR", "LF">>, <<"LF">>},
        lines \in SeqsUpTo(LinePool, MaxLines)}

\* the calls scan_folder(server, foldername, nospinner) of the caller, on a
\* folder that holds msgs: SELECT fails, or the count is garbled, or one
\* identity-header fetch is answered in any way the wrapper allows, or some
\* fallback fetches fail
ScanFolderCallsOn(msgs, K) ==
    LET batches == DOMAIN BatchRanges(1, Len(msgs), K)
        ok == [b \in batches |-> Answered]
        Args(select, count_ok, fetch, nofetch) ==
            [fn |-> "scan_folder", msgs |-> msgs, K |-> K,
             select |-> select, count_ok |-> count_ok,
             fetch |-> fetch, nofetch |-> nofetch]
    IN {Args(select, TRUE, ok, {}) : select \in ServerCallResults}
       \cup {Args(Answered, FALSE, ok, {})}
       \cup {Args(Answered, TRUE, [ok EXCEPT ![x[1]] = x[2]], {}) :
                x \in batches \X ServerCallResults}
       \cup {Args(Answered, TRUE, ok, nofetch) :
                nofetch \in SUBSET NeedsFallback(msgs)}

ScanFolderCalls ==
    UNION {ScanFolderCallsOn(msgs, K) :
              msgs \in SeqsUpTo(MsgPool, MaxScanLen), K \in 1..MaxBatchSize}

\* the arguments of the call are chosen, the call has not been made
Pending == [fn |-> "pending"]

InitCallsOnly ==
    /\ InitRetry
    /\ InitEngine
    /\ ~thunderbird
    /\ remote = [f \in Folders |-> <<>>]
    /\ call \in ScanFolderCalls \cup ResolveCalls \cup ScanFileCalls
                \cup ParseListCalls \cup GetNamesCalls \cup ListingCalls
                \cup EncodeCalls
    /\ result = Pending
    /\ NoMain

\* scan_folder runs (lines 936-1074)
CallScanFolder ==
    /\ call.fn = "scan_folder"
    /\ result = Pending
    /\ result' = ScanFolder(call.msgs, call.K, call.select, call.count_ok,
                            call.fetch, call.nofetch)
    /\ UNCHANGED <<rvars, evars, call, mvars>>

\* the body of the loop over one batch runs for one message (lines 1012-1048)
CallResolve ==
    /\ call.fn = "resolve"
    /\ result = Pending
    /\ result' = ResolveIdentity(call.header, call.eol)
    /\ UNCHANGED <<rvars, evars, call, mvars>>

\* scan_file(filename, False, nospinner, basedir) runs on a file that
\* exists and can be read (lines 836-933)
CallScanFile ==
    /\ call.fn = "scan_file"
    /\ result = Pending
    /\ result' = [exc |-> "None", messages |-> ScanMbox(call.lines, call.cut)]
    /\ UNCHANGED <<rvars, evars, call, mvars>>

\* parse_list(row) runs (lines 1117-1124)
CallParseList ==
    /\ call.fn = "parse_list"
    /\ result = Pending
    /\ result' = parse_list(call.row)
    /\ UNCHANGED <<rvars, evars, call, mvars>>

\* get_names runs on the row of the folder (lines 1139-1152)
CallGetNames ==
    /\ call.fn = "get_names"
    /\ result = Pending
    /\ result' = NamePair(call.row, call.thunderbird)
    /\ UNCHANGED <<rvars, evars, call, mvars>>

\* get_names runs on a listing of two folders (lines 1127-1157)
CallGetNamesListing ==
    /\ call.fn = "get_names_listing"
    /\ result = Pending
    /\ result' = get_names(call.data, call.thunderbird)
    /\ UNCHANGED <<rvars, evars, call, mvars>>

\* the text of a message is encoded (lines 787-796)
CallEncode ==
    /\ call.fn = "encode"
    /\ result = Pending
    /\ result' = [exc |-> "None", text_bytes |-> EncodeBytes(call.data_bytes, call.thunderbird)]
    /\ UNCHANGED <<rvars, evars, call, mvars>>

NextCalls ==
    \/ CallScanFolder
    \/ CallResolve
    \/ CallScanFile
    \/ CallParseList
    \/ CallGetNames
    \/ CallGetNamesListing
    \/ CallEncode

SpecCalls == InitCallsOnly /\ [][NextCalls]_vars

(* ---------------------------------------------------------------------- *)
(* Part 5: main in config-file mode (specification SpecMain)               *)
(* ---------------------------------------------------------------------- *)
MaxAccounts == 3   \* accounts of the config file

\* the engine and the wrapper stay idle; only the variables of main move
MainOnly == RetryIdle /\ UNCHANGED <<evars, pvars>>

\* process_account returns value to main (lines 1883, 1893, 1931, 2059, 2085)
ProcessAccountReturns(value) ==
    /\ m_pc' = "returned"
    /\ success' = value
    /\ UNCHANGED <<exit_status, summary>>

\* sys.exit(status), or an exception nothing catches (status 1): the
\* program ends without the summary
ProgramExits(status) ==
    /\ m_pc' = "exited"
    /\ exit_status' = status
    /\ UNCHANGED <<success, summary>>

\* lines 2138-2153: the loop of main takes the next account and calls
\* process_account
MainNextAccount ==
    /\ m_pc = "main"
    /\ acct < accounts
    /\ acct' = acct + 1
    /\ m_pc' = "connect"
    /\ success' = "None"
    /\ server_calls' = <<>>
    /\ m_fi' = 0
    /\ MainOnly
    /\ UNCHANGED <<accounts, main_success_count, main_failed_count, summary,
                   exit_status>>

\* what connect_and_login ends with, after the retries of lines 1658-1662
ConnectOutcomes == {"ok", "gaierror", "socket.error", "IMAP4.error", "AssertionError"}

\* lines 1669-1682: socket.error and imaplib.IMAP4.error end in
\* sys.exit(4).  (The handler of socket.gaierror, lines 1665-1669, fails
\* with TypeError on its first line and never reaches sys.exit(3).)
ConnectExits(outcome) == outcome \in {"socket.error", "IMAP4.error"}

\* lines 1878-1883 with connect_and_login (lines 1623-1683)
ConnectAndLogin ==
    /\ m_pc = "connect"
    /\ \E outcome \in ConnectOutcomes :
          IF outcome = "ok"
          THEN /\ m_pc' = "connected"
               /\ server_calls' = <<"login">>
               /\ UNCHANGED <<success, exit_status, summary>>
          ELSE /\ UNCHANGED server_calls
               /\ IF ConnectExits(outcome)
                  THEN ProgramExits("4")
                  ELSE \* `except Exception` of line 1881
                       ProcessAccountReturns("False")
    /\ MainOnly
    /\ UNCHANGED <<accounts, acct, main_success_count, main_failed_count, m_fi>>

\* line 1886: get_names; its assertions (lines 1133, 1104, 1123) and the
\* errors of server.list() are caught neither by process_account nor,
\* for AssertionError, by main (lines 2182-2187)
GetNames ==
    /\ m_pc = "connected"
    /\ server_calls' = Append(server_calls, "list")
    /\ \E outcome \in {"ok", "AssertionError", "socket.error", "IMAP4.error"} :
          CASE outcome = "ok" ->
                  /\ m_pc' = "listed"
                  /\ UNCHANGED <<success, exit_status, summary>>
            [] outcome = "AssertionError" -> ProgramExits("1")
            [] outcome = "socket.error" -> ProgramExits("4")
            [] outcome = "IMAP4.error" -> ProgramExits("5")
    /\ MainOnly
    /\ UNCHANGED <<accounts, acct, main_success_count, main_failed_count, m_fi>>

\* lines 1892-1893 and 1930-1931: server.logout(); return False
Abort ==
    /\ server_calls' = Append(server_calls, "logout")
    /\ ProcessAccountReturns("False")

\* lines 1888-1907: both 'folders' and 'exclude-folders' are configured,
\* or the list of names is filtered
FilterFolders ==
    /\ m_pc = "listed"
    /\ \E conflict \in BOOLEAN :
          IF conflict THEN Abort
          ELSE /\ m_pc' = "filtered"
               /\ UNCHANGED <<server_calls, success, exit_status, summary>>
    /\ MainOnly
    /\ UNCHANGED <<accounts, acct, main_success_count, main_failed_count, m_fi>>

\* lines 1909-1977: the directories are made, the GPG key is imported when
\* one is configured, and the folder loop is entered
ImportGpgKey ==
    /\ m_pc = "filtered"
    /\ \E key_result \in BOOLEAN :
          IF ~key_result THEN Abort /\ UNCHANGED m_fi
          ELSE /\ m_pc' = "folders"
               /\ m_fi' = 1
               /\ UNCHANGED <<server_calls, success, exit_status, summary>>
    /\ MainOnly
    /\ UNCHANGED <<accounts, acct, main_success_count, main_failed_count>>

\* lines 1979-2015: one iteration of the folder loop; an excluded folder
\* is passed over, any other is selected by scan_folder and then skipped
\* or transferred
FolderIteration ==
    /\ m_pc = "folders"
    /\ m_fi \in Folders
    /\ m_fi' = m_fi + 1
    /\ \E excluded \in BOOLEAN :
          server_calls' = IF excluded THEN server_calls
                          ELSE Append(server_calls, "select")
    /\ MainOnly
    /\ UNCHANGED <<m_pc, accounts, acct, main_success_count, main_failed_count,
                   success, exit_status, summary>>

\* lines 2017-2085: server.logout(), then the files are encrypted and
\* uploaded; return False when an encryption failed, True otherwise
LogoutAndReturn ==
    /\ m_pc = "folders"
    /\ m_fi = Len(names) + 1
    /\ server_calls' = Append(server_calls, "logout")
    /\ \E failed \in BOOLEAN :
          ProcessAccountReturns(IF failed THEN "False" ELSE "True")
    /\ MainOnly
    /\ UNCHANGED <<accounts, acct, main_success_count, main_failed_count, m_fi>>

\* lines 2155-2160: main counts the account
MainCounts ==
    /\ m_pc = "returned"
    /\ IF success = "True"
       THEN /\ main_success_count' = main_success_count + 1
            /\ UNCHANGED main_failed_count
       ELSE /\ main_failed_count' = main_failed_count + 1
            /\ UNCHANGED main_success_count
    /\ m_pc' = "main"
    /\ MainOnly
    /\ UNCHANGED <<accounts, acct, success, server_calls, m_fi, summary,
                   exit_status>>

\* lines 2162-2169: the summary is printed and the program ends, by
\* sys.exit(1) when an account failed
MainSummary ==
    /\ m_pc = "main"
    /\ acct = accounts
    /\ summary' = <<main_success_count, main_failed_count, accounts>>
    /\ exit_status' = IF main_failed_count > 0 THEN "1" ELSE "0"
    /\ m_pc' = "exited"
    /\ MainOnly
    /\ UNCHANGED <<accounts, acct, main_success_count, main_failed_count,
                   success, server_calls, m_fi>>

\* main is at the head of its loop over 1..MaxAccounts accounts (line 2138)
InitMain ==
    /\ InitRetry
    /\ InitEngine
    /\ ~thunderbird
    /\ remote = [f \in Folders |-> <<>>]
    /\ archive = [f \in Folders |-> NoFile]
    /\ call = NoCall
    /\ result = NoCall
    /\ m_pc = "main"
    /\ accounts \in 1..MaxAccounts
    /\ acct = 0
    /\ main_success_count = 0
    /\ main_failed_count = 0
    /\ success = "None"
    /\ server_calls = <<>>
    /\ m_fi = 0
    /\ summary = <<>>
    /\ exit_status = "None"

NextMain ==
    \/ MainNextAccount
    \/ ConnectAndLogin
    \/ GetNames
    \/ FilterFolders
    \/ ImportGpgKey
    \/ FolderIteration
    \/ LogoutAndReturn
    \/ MainCounts
    \/ MainSummary

SpecMain == InitMain /\ [][NextMain]_vars

(* ---------------------------------------------------------------------- *)
(* Properties of the transfer engine (specification Spec)                  *)
(* ---------------------------------------------------------------------- *)
IsPrefix(a, b) == Len(a) <= Len(b) /\ SubSeq(b, 1, Len(a)) = a

\* a backup is inside a folder, between the plan and the end of the download
InDownload == ~restore /\ e_pc \in {"planned", "dl_loop"}

\* a restore is inside a folder, between the plan and the end of the upload
InUpload == restore /\ e_pc \in {"planned", "ul_loop"}

\* scan_file read the whole archive of the current folder
LocalScanComplete ==
    fil_messages = ScanRecords(Records(archive[fi].lines), <<>>)

\* C1: in a backup, the identities handed to download_messages are exactly
\* the keys of the remote map minus the keys of the local map, each with the
\* sequence number the remote map gives it, and no full-message fetch is
\* issued for a message whose identity the local scan reported.
C1_BackupPlanIsDifference ==
    InDownload =>
        /\ Keys(new_messages) = Keys(fol_messages) \ Keys(fil_messages)
        /\ \A i \in DOMAIN new_messages :
              /\ new_messages[i].num = Get(fol_messages, new_messages[i].id)
              /\ \A j \in DOMAIN new_messages :
                    new_messages[j].id = new_messages[i].id => j = i
        /\ \A num \in fetched :
              \E i \in DOMAIN new_messages :
                 /\ new_messages[i].num = num
                 /\ new_messages[i].id \notin Keys(fil_messages)
        /\ \A i \in DOMAIN fol_messages :
              fol_messages[i].id \in Keys(fil_messages) =>
                 fol_messages[i].num \notin fetched

\* a download is under way for a folder some of whose identities the
\* archive already has: one message has been fetched, another is skipped
C1_Witness ==
    /\ e_pc = "dl_loop"
    /\ ~restore
    /\ fetched # {}
    /\ Keys(fol_messages) \cap Keys(fil_messages) # {}
    /\ Len(new_messages) < Len(fol_messages)

\* C2: from a nonexistent or empty archive the plan of a backup is the whole
\* remote map; and when every download of that first backup succeeded, the
\* next (non-destructive) backup of the same unchanged folder, whose remote
\* scan returns the same identities and whose local scan reads the whole
\* archive, plans nothing and fetches nothing.
C2_SecondBackupPlansNothing ==
    /\ (e_pc = "planned" /\ ~restore /\ archive[fi].lines = <<>>) =>
          new_messages = fol_messages
    /\ (/\ e_pc = "planned"
        /\ ~restore
        /\ ~overwrite
        /\ hist[fi].st = "clean"
        /\ Keys(fol_messages) = hist[fi].keys
        /\ LocalScanComplete) =>
          /\ new_messages = <<>>
          /\ fetched = {}

\* C3: whatever fails in download_messages, every entry of the plan is
\* processed once and counted once, as succeeded or as failed: inside the
\* loop the two counters add up to the number of entries processed, and the
\* counts returned add up to the size of the plan.
C3_EveryMessageCounted ==
    /\ e_pc = "dl_loop" =>
          /\ msg_index <= Len(new_messages)
          /\ success_count + failed_count = msg_index
    /\ ret.fn = "download" => ret.ok + ret.failed = ret.n

\* a download returned after one message failed and another succeeded
C3_Witness ==
    /\ ret.fn = "download"
    /\ ret.ok >= 1
    /\ ret.failed >= 1
    /\ ret.n = 2

\* C4: during and after a backup with any pattern of failures the archive
\* is what it was when it was opened followed by complete records only, one
\* per message counted as succeeded: a message that failed has contributed
\* no bytes.
C4_OnlyCompleteRecords ==
    e_pc = "dl_loop" => archive[fi].lines = good

C6_RestoreAppendsDifference ==
    InUpload =>
        /\ Keys(new_messages) = Keys(fil_messages) \ Keys(fol_messages)
        /\ \A i \in DOMAIN appended :
              /\ appended[i] \in Keys(fil_messages)
              /\ appended[i] \notin Keys(fol_messages)

\* an upload has appended one record of an archive another record of which
\* the server already has
C6_Witness ==
    /\ e_pc = "ul_loop"
    /\ restore
    /\ appended # <<>>
    /\ Keys(fil_messages) \cap Keys(fol_messages) # {}

\* C7: an archive that download_messages wrote from nothing, every message
\* of the plan written so far and none failed, scans to a map with one key
\* per message written: the identities under which the messages were
\* written, native or synthesised.
C7_RoundTrip ==
    (e_pc = "dl_loop" /\ hist[fi].st = "open" /\ failed_count = 0) =>
        LET scanned == ScanRecords(Records(archive[fi].lines), <<>>)
        IN /\ Len(scanned) = success_count
           /\ Keys(scanned) = {new_messages[i].id : i \in 1..msg_index}

\* C11: when scan_folder raises SkipFolderException the folder is abandoned
\* and nothing else changes: the step fetches no message, appends nothing,
\* leaves every archive (also in overwrite mode) and every folder of the
\* server as they were, keeps the mode of the run, and the loop goes to the
\* next folder of the listing; the run ends only after the last folder.
C11_SkipAbandonsFolderOnly ==
    [][ /\ (e_pc = "folder" /\ e_pc' = "folder") =>
              /\ ret' = Skipped
              /\ fi' = fi + 1
              /\ archive' = archive
              /\ remote' = remote
              /\ fetched' = fetched
              /\ appended' = appended
              /\ <<restore', overwrite', thunderbird'>> = <<restore, overwrite, thunderbird>>
        /\ (e_pc = "folder" /\ e_pc' = "idle") => fi = Len(names) + 1
      ]_vars

\* the first folder was skipped in an overwriting backup while its archive
\* had content; the second folder is next
C11_Witness ==
    /\ e_pc = "folder"
    /\ ret = Skipped
    /\ fi = 2
    /\ ~restore
    /\ overwrite
    /\ archive[1].lines # <<>>

(* ---------------------------------------------------------------------- *)
(* Properties of the library functions (specification SpecCalls)           *)
(* ---------------------------------------------------------------------- *)
\* the identity-header fetches of the call that were not answered 'OK'
FailedBatches == {b \in DOMAIN call.fetch : NotOK(call.fetch[b])}

\* C12: scan_folder raises SkipFolderException and returns no map whenever
\* SELECT fails after retries, or is not answered OK, or the message count
\* cannot be parsed, and then it has issued no fetch at all; and whenever an
\* identity-header fetch fails after retries or is not answered OK it
\* raises SkipFolderException too, the identities of the earlier batches
\* being lost: a map is returned only when every batch was answered OK.
C12_ScanFolderSkips ==
    (call.fn = "scan_folder" /\ result # Pending) =>
        /\ (NotOK(call.select) \/ ~call.count_ok) =>
              /\ result.exc = "SkipFolderException"
              /\ result.fetches = <<>>
              /\ result.alt = {}
        /\ (~NotOK(call.select) /\ call.count_ok /\ FailedBatches # {}) =>
              /\ result.exc = "SkipFolderException"
              /\ \E b \in FailedBatches :
                    /\ Len(result.fetches) = b
                    /\ \A a \in FailedBatches : b <= a
        /\ result.exc = "SkipFolderException" => result.messages = NoMap
        /\ result.exc = "None" =>
              ~NotOK(call.select) /\ call.count_ok /\ FailedBatches = {}

\* the first batch gave an identity, the fetch of the second batch failed
\* three times, and the call raised
C12_Witness ==
    /\ call.fn = "scan_folder"
    /\ call.K = 1
    /\ Len(call.msgs) = 2
    /\ MatchMsgId(MsgIdBlock(call.msgs[1])) # <<>>
    /\ call.fetch[1] = Answered
    /\ call.fetch[2].pc = "raised"
    /\ call.fetch[2].res.at = DEFAULT_MAX_RETRIES
    /\ result # Pending
    /\ result.exc = "SkipFolderException"
    /\ Len(result.fetches) = 2

\* the number of times the identity-header fetches of the call were sent
RECURSIVE SumCalls(_)
SumCalls(fetches) ==
    IF fetches = <<>> THEN 0 ELSE Head(fetches).calls + SumCalls(Tail(fetches))

\* C13: for a folder of n messages and batch size K the identity-header
\* fetch ranges are, in ascending order, [1..K], [K+1..2K], ..., the last
\* one ending at n: contiguous, disjoint and covering 1..n.  A scan that
\* returns has issued ceil(n/K) ranges, none when n = 0, and when no fetch
\* failed it has made exactly that many fetch calls; a scan that raises has
\* issued a prefix of them.
C13_BatchRanges ==
    (call.fn = "scan_folder" /\ result # Pending) =>
        LET n == Len(call.msgs)
            K == call.K
            f == result.fetches
            ceil == (n + K - 1) \div K
        IN /\ Len(f) <= ceil
           /\ \A b \in DOMAIN f :
                 /\ f[b].lo = (b - 1) * K + 1
                 /\ f[b].hi = Min(b * K, n)
                 /\ f[b].lo <= f[b].hi
                 /\ b > 1 => f[b].lo = f[b - 1].hi + 1
           /\ result.exc = "None" =>
                 /\ Len(f) = ceil
                 /\ UNION {f[b].lo .. f[b].hi : b \in DOMAIN f} = 1..n
                 /\ (\A b \in DOMAIN call.fetch : call.fetch[b] = Answered) =>
                       SumCalls(f) = ceil
                 /\ n = 0 => f = <<>>

\* three messages in batches of two: the ranges 1:2 and 3:3, two calls
C13_Witness ==
    /\ call.fn = "scan_folder"
    /\ result # Pending
    /\ result.exc = "None"
    /\ Len(call.msgs) = 3
    /\ call.K = 2
    /\ result.fetches = <<[lo |-> 1, hi |-> 2, calls |-> 1],
                          [lo |-> 3, hi |-> 3, calls |-> 1]>>

\* the sequence numbers of the messages of the call for which scan_folder
\* resolves the identity id, from the Message-Id header or by the fallback
Carriers(id) ==
    {num \in DOMAIN call.msgs :
        LET msg_id == MatchMsgId(MsgIdBlock(call.msgs[num]))
        IN IF msg_id # <<>> THEN msg_id = id
           ELSE num \notin call.nofetch /\ SynthId(call.msgs[num]) = id}

\* C14: for any folder contents, messages with a synthesised identity
\* included, the map scan_folder returns has at most n entries, no identity
\* twice, and gives every identity the smallest sequence number of the
\* messages that carry it.
C14_FirstNumberWins ==
    (call.fn = "scan_folder" /\ result # Pending /\ result.exc = "None") =>
        LET messages == result.messages
        IN /\ Len(messages) <= Len(call.msgs)
           /\ \A i, j \in DOMAIN messages :
                 messages[i].id = messages[j].id => i = j
           /\ \A i \in DOMAIN messages :
                 /\ messages[i].num \in Carriers(messages[i].id)
                 /\ \A num \in Carriers(messages[i].id) : messages[i].num <= num

\* the value of a header field after white-space normalisation: runs of
\* white space collapsed to one space, trimmed
Normalised(body) == BlanksSub(TextStrip(Unfold(body, "CRLF")))

\* the identity headers of the header of the call that have a value
IdentityFields ==
    {i \in DOMAIN call.header :
        call.header[i].name \in MidNames /\ Normalised(call.header[i].body) # <<>>}

\* C15: for every header that contains an identity header with a value, the
\* identity resolved is that header's value after white-space normalisation,
\* whatever other headers stand before or after it.
C15_IdentityIsHeaderValue ==
    (call.fn = "resolve" /\ result # Pending /\ IdentityFields # {}) =>
        /\ result.path = "header"
        /\ \E i \in IdentityFields : result.id = Normalised(call.header[i].body)

\* the From/To/Cc/Date/Subject fields of a header
AltFields(header) == SelectSeq(header, LAMBDA f : f.name \in AltNames)

\* the header has no identity header at all
LacksIdentity(header) == \A i \in DOMAIN header : header[i].name \notin MidNames

\* C16: for headers that lack an identity header, two resolutions over the
\* same From/To/Cc/Date/Subject content give the same synthesised identity,
\* also when one server ends lines with CRLF and the other with LF.
C16_SynthesisedIsStable ==
    (call.fn = "resolve" /\ result # Pending /\ LacksIdentity(call.header)) =>
        /\ result.path = "fallback"
        /\ \A other \in ResolveCalls :
              (LacksIdentity(other.header)
                 /\ AltFields(other.header) = AltFields(call.header)) =>
                 ResolveIdentity(other.header, other.eol) = result

\* the value of the first Message-Id header of a record, <<>> when the
\* record has no such header or the header has no value
Carried(rec) ==
    LET ms == SelectSeq(HeaderLines(rec), LAMBDA l : l.t = "mid")
    IN IF ms = <<>> THEN <<>> ELSE Head(ms).v

\* the identities carried by the records of a file, each once, in the
\* order of their first occurrence
RECURSIVE FirstOccurrences(_, _)
FirstOccurrences(recs, seen) ==
    IF recs = <<>> THEN seen
    ELSE LET id == Carried(Head(recs))
         IN FirstOccurrences(Tail(recs),
               IF id = <<>> \/ \E i \in DOMAIN seen : seen[i] = id THEN seen
               ELSE Append(seen, id))

\* C17: in scan_file a record whose identity header is missing or malformed
\* adds no entry to the map and does not end the scan: the keys of the map
\* returned are exactly the identities of the records that carry an
\* identity header, each once, the first occurrence winning.
C17_LocalScanKeys ==
    (call.fn = "scan_file" /\ result # Pending
        /\ call.cut = Len(Records(call.lines))) =>
        [i \in DOMAIN result.messages |-> result.messages[i].id]
            = FirstOccurrences(Records(call.lines), <<>>)

\* the line of the call is well-formed: (attrs) "<delim>" <name>
WellFormedLine ==
    /\ call.shape = "ok"
    /\ Len(call.tokens) = 2
    /\ call.tokens[1].q

\* C18: for every well-formed listing line (attrs) "<delim>" <name>, the
\* name quoted or bare, attrs a possibly empty, possibly nested list of
\* backslash-prefixed attributes, parse_list returns [attribute list,
\* delimiter, name]: the attributes in the order of the line, every nested
\* group a nested list, delimiter and name without their quotes.
C18_ParseListWellFormed ==
    (call.fn = "parse_list" /\ result # Pending /\ WellFormedLine) =>
        /\ result.exc = "None"
        /\ result.value = <<call.attrs, call.tokens[1].v, call.tokens[2].v>>

\* C19: on every line parse_list comes to an end, with a value or with an
\* exception, and it raises, returning no [attributes, delimiter, name],
\* when the first character of the line that is not white space is not "(",
\* when the attribute list is not opened or not closed, and when the strings
\* after the attribute list are not exactly two.
C19_ParseListFails ==
    call.fn = "parse_list" =>
        /\ parse_list(call.row).exc \in {"None", "AssertionError", "IndexError"}
        /\ result # Pending =>
              /\ (\/ TextStripLeft(call.row) = <<>>
                  \/ Head(TextStripLeft(call.row)) # "("
                  \/ call.shape # "ok"
                  \/ Len(call.tokens) # 2) =>
                    result.exc \in {"AssertionError", "IndexError"}

\* a line whose attribute list is never closed made parse_list raise
C19_Witness ==
    /\ call.fn = "parse_list"
    /\ call.shape = "noclose"
    /\ call.attrs # <<>>
    /\ result # Pending
    /\ result.exc = "AssertionError"

\* get_names has made a file name under the flattened policy
Flattened == call.fn = "get_names" /\ result # Pending /\ ~call.thunderbird

\* C20 as stated: for every folder name and every delimiter the server
\* reports, the file name made under the flattened policy never contains
\* the delimiter character.
C20_NoDelimiterInFileName ==
    Flattened =>
        /\ result.exc = "None"
        /\ \A i \in DOMAIN result.value[2] : <<result.value[2][i]>> # call.delim

\* C20, amended: under the flattened policy the file name is the folder
\* name with every occurrence of the delimiter replaced by ".", followed by
\* ".mbox"; so it contains the delimiter character only when the delimiter
\* is "." itself.
C20_DelimiterReplacedByDot ==
    Flattened =>
        /\ result.exc = "None"
        /\ result.value[1] = call.name
        /\ result.value[2] =
              [i \in DOMAIN call.name |->
                  IF <<call.name[i]>> = call.delim THEN "." ELSE call.name[i]]
              \o <<".", "mbox">>
        /\ call.delim # <<".">> =>
              \A i \in DOMAIN result.value[2] : <<result.value[2][i]>> # call.delim

\* the folder a/b of a server whose delimiter is "/" got the file a.b.mbox
C20_Witness ==
    /\ Flattened
    /\ call.delim = <<"/">>
    /\ call.name = <<"a", "/", "b">>
    /\ result.value[2] = <<"a", ".", "b", ".", "mbox">>

(* ---------------------------------------------------------------------- *)
(* Properties of process_account as a whole (specification Spec)          *)
(* ---------------------------------------------------------------------- *)
\* process_account has returned
AccountReturned == e_pc = "idle" /\ account # "none"

\* C21: process_account reports failure when an archive file could not be
\* opened (or deleted) during a folder's transfer, and reports success when
\* the only errors of the run were retried network errors, skipped folders
\* or failures of single messages.
C21_OpenFailureFailsAccount ==
    AccountReturned =>
        /\ E_OPEN \in errors => account = "False"
        /\ errors \subseteq {E_RETRY, E_SKIP, E_MSG} => account = "True"

\* C22: with encryption enabled, when the encryption of an archive file has
\* failed nothing is handed to the upload step and process_account returns
\* False; and every file handed to the upload step is an encrypted one.
C22_NoUploadAfterFailedEncryption ==
    (AccountReturned /\ gpg_encrypt) =>
        /\ encryption_failed => (s3_uploads = <<>> /\ account = "False")
        /\ \A i \in DOMAIN s3_uploads : s3_uploads[i].encrypted

\* both archive files exist, the encryption of one of them failed (the one
\* fault of the execution): nothing was uploaded, the account failed
C22_Witness ==
    /\ AccountReturned
    /\ gpg_encrypt
    /\ \A f \in Folders : archive[f].exists
    /\ encryption_failed
    /\ faults = 1
    /\ s3_uploads = <<>>
    /\ account = "False"

\* the sequence numbers the scan of the selected folder returned
ScannedNumbers == {fol_messages[i].num : i \in DOMAIN fol_messages}

\* C24: every full-message fetch is issued while the folder whose scan
\* produced its sequence number is still the selected folder: from the scan
\* of a folder to the end of its transfer the selection does not change,
\* and a fetch uses a number the scan under that selection returned.
C24_FetchUnderOwnSelection ==
    [][/\ e_pc \in {"planned", "dl_loop", "ul_loop"} =>
            (selected = fi /\ selected' = selected)
       /\ \A num \in fetched' \ fetched :
            /\ selected = fi
            /\ num \in ScannedNumbers]_vars

\* a message of the second folder is fetched, after the first folder, which
\* was selected before it, had a message fetched and stored
C24_Witness ==
    /\ e_pc = "dl_loop"
    /\ fi = 2
    /\ selected = 2
    /\ fetched = {1}
    /\ archive[1].lines # <<>>

\* the step in which download_messages fails to delete or to open the
\* archive file of the folder (the only failures of lines 713-727)
OpenFailure == e_pc = "planned" /\ ~restore /\ faults' = faults + 1

\* C27: when the archive file cannot be opened for writing (or, with
\* overwrite, cannot be deleted), download_messages returns zero successes
\* and as many failures as the plan has entries, sends no fetch and writes
\* nothing to the file; process_account goes on with the next folder.
C27_OpenFailureFailsThePlan ==
    [][OpenFailure =>
          /\ ret' = [fn |-> "download", ok |-> 0, failed |-> Len(new_messages),
                     n |-> Len(new_messages)]
          /\ fetched' = {}
          /\ remote' = remote
          /\ archive'[fi] \in {archive[fi], NoFile}
          /\ \A f \in Folders \ {fi} : archive'[f] = archive[f]
          /\ e_pc' = "folder"
          /\ fi' = fi + 1]_vars

\* the file of the first folder, which had a message to download, could
\* not be opened; the message of the second folder has been downloaded
C27_Witness ==
    /\ E_OPEN \in errors
    /\ ~restore
    /\ remote[1] # <<>>
    /\ archive[1].lines = <<>>
    /\ fi = 2
    /\ e_pc = "dl_loop"
    /\ success_count = 1

\* the step in which download_messages has written the record of a message
\* and counts the message as succeeded
RecordWritten == ~restore /\ e_pc = "dl_loop" /\ success_count' = success_count + 1

IsPeek(parts) == \E i \in DOMAIN parts : parts[i] = "BODY.PEEK"

\* scan_folder has been called and has come back
Scanned == call.fn = "scan_folder" /\ result # Pending

\* C23: during a remote scan the folder is selected read-only and every
\* fetch sent, the batch fetch of the identity header as well as the
\* per-message fetch of the alternate headers, is a peek-style fetch.
C23_ScanOnlyPeeks ==
    Scanned =>
        \A q \in ScanRequests(result) :
            /\ q.cmd = "SELECT" => q.readonly
            /\ q.cmd = "FETCH" => IsPeek(q.parts)

\* C25: every request the scan sends on the session (the SELECT, the batch
\* fetch of the identity header, the per-message fetch of the alternate
\* headers) is made through the retry wrapper, so that one transient
\* failure of it is retried.
C25_ScanRequestsAreWrapped ==
    Scanned => \A q \in ScanRequests(result) : q.via = WRAPPED

RECURSIVE LinesOf(_, _)
LinesOf(data, cur) ==
    IF data = <<>> THEN <<cur>>
    ELSE IF Head(data) = "LF" THEN <<cur>> \o LinesOf(Tail(data), <<>>)
    ELSE LinesOf(Tail(data), Append(cur, Head(data)))

\* a line made of quote markers followed by the separator word
IsFromLine(line) ==
    Len(line) > QuoteDepth(line) /\ line[QuoteDepth(line) + 1] = "From "

\* the line as the claim wants it written
Escaped(line, tb) ==
    IF ~IsFromLine(line) THEN line
    ELSE IF ~tb THEN <<">">> \o line
    ELSE IF QuoteDepth(line) = 0 THEN <<"SP">> \o line
    ELSE line

\* a message has been encoded
Encoded == call.fn = "encode" /\ result # Pending

\* C29: when a record is encoded the carriage returns are removed and every
\* line of the message (taken without the white space around it) that
\* begins with the separator word is escaped: by one more '>' in front of
\* its k >= 0 quote markers (mode A), or by one space in front of an
\* unquoted "From " (mode B, quoted lines left alone); all other lines are
\* written as they are, so no line written begins with "From ".
C29_FromLinesEscaped ==
    Encoded =>
        LET src == LinesOf(StripAndDropCR(call.data_bytes), <<>>)
            out == LinesOf(result.text_bytes, <<>>)
        IN /\ \A i \in DOMAIN result.text_bytes : result.text_bytes[i] # "CR"
           /\ out = [i \in DOMAIN src |-> Escaped(src[i], call.thunderbird)]
           /\ \A i \in DOMAIN out : out[i] = <<>> \/ Head(out[i]) # "From "

(* ---- Properties of the file names of get_names ------------------------- *)
Nested == call.fn = "get_names" /\ result # Pending /\ call.thunderbird

\* the hierarchy component str starts with, up to the first delim
RECURSIVE RootComponent(_, _)
RootComponent(str, delim) ==
    IF str = <<>> \/ (Len(str) >= Len(delim) /\ SubSeq(str, 1, Len(delim)) = delim)
    THEN <<>>
    ELSE <<Head(str)>> \o RootComponent(Tail(str), delim)

\* C31 as stated: under the nested policy the file path is the hierarchy
\* components of the folder name joined by ".sbd/", and only a root
\* component that is the name INBOX is rewritten to Inbox; a deeper
\* component INBOX and a root name that only starts with INBOX are left
\* as they are.
C31_OnlyRootInboxRewritten ==
    Nested =>
        /\ result.exc = "None"
        /\ result.value[1] = call.name
        /\ LET joined == JoinSplit(call.name, call.delim, <<".", "sbd", "/">>)
           IN result.value[2] =
                 IF RootComponent(call.name, call.delim) = <<"INBOX">>
                 THEN <<"Inbox">> \o Tail(joined)
                 ELSE joined

Listed == call.fn = "get_names_listing" /\ result # Pending

\* C39 as stated: within one listing, two remote folders of different
\* names never get the same local file path, under the flattened policy
\* and under the nested one.
C39_DistinctFoldersDistinctPaths ==
    Listed =>
        /\ result.exc = "None"
        /\ \A i, j \in DOMAIN result.value :
              result.value[i][1] # result.value[j][1]
                  => result.value[i][2] # result.value[j][2]

(* ---- Properties of a backup in overwrite mode --------------------------- *)
Overwriting == ~restore /\ overwrite

\* what the loop of download_messages may have written for the plan
\* entries plan[1..n] of folder f: for each entry nothing, the head of its
\* record, or its whole record
RECURSIVE WrittenFor(_, _, _)
WrittenFor(plan, n, f) ==
    IF n = 0 THEN {<<>>}
    ELSE LET head == RecordHead(plan[n].id)
             text == EncodeText(remote[f][plan[n].num], thunderbird)
         IN UNION {{w, w \o head, w \o head \o text \o RecordEnd} :
                      w \in WrittenFor(plan, n - 1, f)}

\* the download of folder fi returns to process_account in this step
DownloadReturns == e_pc \in {"planned", "dl_loop"} /\ fi' # fi

\* C32 as stated: in overwrite mode, for a folder whose remote scan
\* succeeded, the old archive is removed before the first record is
\* written, so that when the download of the folder has returned the
\* archive holds only what this run has written.
C32_OnlyThisRunsRecords ==
    [][(Overwriting /\ DownloadReturns)
          => archive'[fi].lines \in WrittenFor(new_messages, Len(new_messages), fi)]_vars

\* C32, amended: in overwrite mode the local scan returns the empty map
\* without reading the archive and the plan holds every identity the
\* remote scan returned; inside the loop the archive holds only what this
\* run has written for the entries visited; and when the download returns
\* the archive holds only what this run has written, unless the old
\* archive could not be removed: then it is left as it was, nothing is
\* written and the whole plan is counted as failed.
C32_OverwriteReplacesArchive ==
    [][/\ (Overwriting /\ e_pc = "planned")
            => /\ fil_messages = <<>>
               /\ new_messages = fol_messages
               /\ E_READ \notin errors
       /\ (Overwriting /\ e_pc = "dl_loop")
            => archive[fi].lines \in WrittenFor(new_messages, msg_index, fi)
       /\ (Overwriting /\ DownloadReturns)
            => \/ archive'[fi].lines \in WrittenFor(new_messages, Len(new_messages), fi)
               \/ /\ archive'[fi] = archive0[fi]
                  /\ archive0[fi].exists
                  /\ E_OPEN \in errors'
                  /\ ret' = [fn |-> "download", ok |-> 0, failed |-> Len(new_messages),
                             n |-> Len(new_messages)]]_vars

\* an archive that held a record is being overwritten: the record of the
\* first message of the plan has been written into the new file
C32_Witness ==
    /\ Overwriting
    /\ e_pc = "dl_loop"
    /\ archive0[fi].lines # <<>>
    /\ msg_index >= 1
    /\ success_count >= 1
    /\ archive[fi].lines = good

(* ---- Properties of a restore -------------------------------------------- *)
\* the upload of folder fi returns to process_account in this step
UploadReturns == restore /\ e_pc \in {"planned", "ul_loop"} /\ fi' # fi

NoDuplicates(seq) == \A i, j \in DOMAIN seq : seq[i] = seq[j] => i = j

\* C33 as stated: in restore, whatever the archive holds and whatever
\* fails, every identity of the plan is appended at most once and counted
\* exactly once, as uploaded or as failed: the two counts returned add up
\* to the size of the plan and the appends are never more than the plan.
C33_UploadCountsAddUp ==
    [][/\ (restore /\ e_pc = "ul_loop")
            => /\ NoDuplicates(appended)
               /\ Len(appended) <= Len(new_messages)
               /\ success_count + failed_count <= Len(new_messages)
       /\ UploadReturns
            => ret'.ok + ret'.failed = Len(new_messages)]_vars

(* ---- Properties of main and of the path of process_account -------------- *)
\* the number of times method was called on the server
Count(method, calls) == Cardinality({i \in DOMAIN calls : calls[i] = method})

\* a process_account call that had logged in ends in this step: it
\* returns, or the program ends inside it
LoggedInCallEnds ==
    /\ m_pc \in {"connected", "listed", "filtered", "folders"}
    /\ m_pc' \in {"returned", "exited"}

\* C34 as stated: on every path of process_account after a successful
\* login - the aborts for conflicting folder filters and for a failed GPG
\* key import, and the normal end - logout has been called exactly once
\* when the call ends and is the last command sent to the server; and
\* when the import of the GPG key fails the function returns failure.
C34_LogoutExactlyOnce ==
    [][/\ LoggedInCallEnds
            => /\ Count("logout", server_calls') = 1
               /\ server_calls'[Len(server_calls')] = "logout"
       /\ (m_pc = "filtered" /\ m_pc' # "folders")
            => /\ m_pc' = "returned"
               /\ success' = "False"]_vars

\* C38 as stated: in config-file mode a failed connect or login makes
\* process_account return failure for that account and main goes on with
\* the remaining accounts; the summary counts every account once, and the
\* exit status is non-zero exactly when an account failed.
C38_FailedLoginFailsOneAccount ==
    [][/\ (m_pc = "connect" /\ m_pc' # "connected")
            => /\ m_pc' = "returned"
               /\ success' = "False"
       /\ (m_pc = "returned" /\ success = "False")
            => /\ m_pc' = "main"
               /\ main_failed_count' = main_failed_count + 1
       /\ (m_pc' = "exited" /\ summary' # <<>>)
            => /\ summary'[1] + summary'[2] = accounts
               /\ (exit_status' # "0") <=> (summary'[2] > 0)]_vars

(* ---- Properties of the memory of a remote scan --------------------------- *)
\* the events of the response buffer during the scan of the call
EventsOfCall ==
    ScanEvents(call.msgs, call.K, call.select, call.count_ok, call.fetch)

\* C35: in a remote scan the response buffer of a batch is released before
\* the fetch of the next batch is sent, and the buffer held at any time is
\* the response of one batch, which covers at most K messages.
C35_OneBatchHeld ==
    Scanned =>
        \A k \in DOMAIN EventsOfCall :
            LET before == DataHeld(SubSeq(EventsOfCall, 1, k - 1))
                after  == DataHeld(SubSeq(EventsOfCall, 1, k))
            IN /\ EventsOfCall[k].ev = "fetch" => before = {}
               /\ Cardinality(after) <= 1
               /\ \A d \in after : d.hi - d.lo + 1 <= call.K

\* a scan of three batches: the third fetch has been sent after two
\* buffers were bound and released
C35_Witness ==
    /\ Scanned
    /\ result.exc = "None"
    /\ Len(result.fetches) = 3
    /\ Len(EventsOfCall) = 9
    /\ EventsOfCall[6].ev = "del"
    /\ EventsOfCall[7].ev = "fetch"

(* ---- Properties of the failures of a backup ------------------------------ *)
\* the identities a complete scan of the archive of folder f reports
Reported(file) == Keys(ScanMbox(file.lines, Len(Records(file.lines))))

\* C36 as stated: a message a backup run counts as failed is not reported
\* by the scan of the archive afterwards, whether its identity is its own
\* or a synthesised one; so the next run plans it again.
C36_FailedNotInArchive ==
    [][(e_pc = "dl_loop" /\ failed_count' = failed_count + 1)
          => new_messages[msg_index + 1].id \notin Reported(archive'[fi])]_vars

\* the identities of the messages of a folder: what scan_folder returns
\* when every fetch is answered
Identities(msgs) ==
    Keys(ScanFolder(msgs, FETCH_BATCH_SIZE, Answered, TRUE,
                    [b \in DOMAIN BatchRanges(1, Len(msgs), FETCH_BATCH_SIZE) |-> Answered],
                    {}).messages)

\* C37 as stated: when the backup of a folder that was not skipped has
\* returned, every message of the remote folder has its identity in the
\* local archive or is counted in the failed count returned for the folder.
C37_StoredOrCountedFailed ==
    [][(~restore /\ DownloadReturns)
          => Cardinality(Identities(remote[fi]) \ Reported(archive'[fi]))
                <= ret'.failed]_vars

(* ---- Termination of a run ------------------------------------------------ *)
\* the transfers the model observes are used up
OutOfBudget == transfers = MaxTransfers

\* C40: a run of an account comes to an end: every call of the wrapper
\* ends after at most max_retries invocations of func, the folder loop
\* goes from each folder to the next and so visits every folder once, and
\* the run reaches the logout that ends it.
C40_RunTerminates ==
    /\ [](\A r \in ServerCallResults : r.res.at <= DEFAULT_MAX_RETRIES)
    /\ [][(e_pc # "idle" /\ fi' # fi) => (fi' = fi + 1 \/ e_pc' = "idle")]_vars
    /\ (e_pc # "idle") ~> (e_pc = "idle" \/ OutOfBudget)

\* a run has ended by its logout after a call that was retried
C40_Witness ==
    /\ e_pc = "idle"
    /\ account \in {"True", "False"}
    /\ E_RETRY \in errors
    /\ transfers >= 1
    /\ ~OutOfBudget

====
